---- MODULE Spec2Model ----
(***************************************************************************)
(* The x402 payment client of UltrapayX402 (src/src/services/x402.ts):     *)
(* the wallet session (the module-level walletClient), the chain guard,    *)
(* the EIP-3009 authorization signer and the 402-intercepting fetch        *)
(* wrapper, as a state machine whose steps are the continuations that run  *)
(* between two awaits of the single-threaded event loop.                   *)
(*                                                                         *)
(* Strings whose content the code inspects or converts (decimal amounts,   *)
(* hexadecimal chain ids, header text) are sequences of character codes.   *)
(***************************************************************************)
EXTENDS Integers, Sequences, FiniteSets, TLC

VARIABLES
    hasProvider,   \* window.ethereum is defined
    provAccounts,  \* the accounts the provider reports as authorized
    provChain,     \* the provider's active chain id
    provKnown,     \* the provider has the target chain registered
    walletClient,  \* the module-level session client: None or Some(client)
    now,           \* the clock, in Unix seconds
    rng,           \* number of draws from crypto.getRandomValues; draw k returns k,
                   \* a source that never returns the same 32 bytes twice
    nonceLog,      \* the nonces submitted in signature requests, in order
    subscribed,    \* the handlers of onWalletChange are registered on the provider
    events,        \* events the provider emitted to those handlers, not yet delivered
    walletState,   \* the WalletState the application holds (App, lines 31-36)
    call           \* one record per slot of the event loop that runs an operation

\* the state of the event bridge
bridgeVars == <<subscribed, events, walletState>>

vars == <<hasProvider, provAccounts, provChain, provKnown, walletClient, now, rng,
          nonceLog, bridgeVars, call>>

----------------------------------------------------------------------------
(* Bounds of the model *)

MaxTicks == 1          \* the clock advances at most this many seconds
MaxNonces == 2         \* at most this many nonces are drawn in one behaviour
MaxAmountLen == 2      \* longest maxAmountRequired string of the wide input set
MaxEvents == 1         \* at most this many provider events await their handler
BaseTime == 1000       \* the clock value of the initial state

Calls == {1, 2}        \* concurrent operations of the interleaving specification

(* Program constants *)
PaymentRequired == 402
X402Version == 1
SkewSeconds == 60
ExtraSeconds == 300
NonceBytes == 32
BaseSepoliaId == 84532
BaseId == 8453
UnrecognizedChain == 4902

None == <<>>
Some(x) == <<x>>

----------------------------------------------------------------------------
(* Conversions *)

IsDigit(ch) == ch \in 48..57

AllDigits(s) == \A i \in 1..Len(s) : IsDigit(s[i])

RECURSIVE DecValue(_)
DecValue(s) ==
    IF s = <<>> THEN 0
    ELSE 10 * DecValue(SubSeq(s, 1, Len(s) - 1)) + (s[Len(s)] - 48)

RECURSIVE NatToString(_)
NatToString(n) ==
    IF n < 10 THEN <<48 + n>>
    ELSE NatToString(n \div 10) \o <<48 + (n % 10)>>

\* bigint.toString(): canonical decimal digits, "-" (45) before a negative value
BigIntToString(n) == IF n < 0 THEN <<45>> \o NatToString(0 - n) ELSE NatToString(n)

HexDigit(d) == IF d < 10 THEN 48 + d ELSE 87 + d

RECURSIVE NatToHexDigits(_)
NatToHexDigits(n) ==
    IF n < 16 THEN <<HexDigit(n)>>
    ELSE NatToHexDigits(n \div 16) \o <<HexDigit(n % 16)>>

\* `0x${id.toString(16)}`
ToHexString(n) == <<48, 120>> \o NatToHexDigits(n)

HexDigitValue(ch) == IF ch \in 48..57 THEN ch - 48 ELSE ch - 87

RECURSIVE HexValue(_)
HexValue(s) ==
    IF s = <<>> THEN 0
    ELSE 16 * HexValue(SubSeq(s, 1, Len(s) - 1)) + HexDigitValue(s[Len(s)])

\* parseInt(text, 16) of a "0x"-prefixed lower-case hexadecimal string
ParseHex(s) == HexValue(SubSeq(s, 3, Len(s)))

\* BigInt(string): the empty string is 0n, a run of decimal digits is its value,
\* any other text of the modelled alphabet is a SyntaxError.
StringToBigIntOk(s) == AllDigits(s)

\* a reading of the amount text in base 16 instead of base 10
StringToBigIntRadix16(s) == HexValue(s)

StringToBigInt(s) == DecValue(s)

IsLatin1(s) == \A i \in 1..Len(s) : s[i] <= 255

----------------------------------------------------------------------------
(* Configuration and data *)

ConfigNetwork == "base-sepolia"

\* getChain(): baseSepolia when the configured network is 'base-sepolia', else base
GetChain ==
    IF ConfigNetwork = "base-sepolia"
    THEN [id |-> BaseSepoliaId, name |-> "Base Sepolia"]
    ELSE [id |-> BaseId, name |-> "Base"]

\* a chain the wallet can be on that is not one of the two protocol chains
ForeignChain == [id |-> 1, name |-> "Ethereum"]

ChainIds == {GetChain.id, ForeignChain.id}

Accounts == {"0xaa", "0xbb"}

AccountLists == {<<>>} \cup {<<a>> : a \in Accounts}

\* createWalletClient({account, chain: getChain(), transport: custom(window.ethereum)})
CreateWalletClient(address) == [account |-> address, chain |-> GetChain.id]

NoExtra == [name |-> "", version |-> ""]

TermsOf(schemes, amounts, payTos, timeouts, extras) ==
    [scheme : schemes, network : {"base-sepolia"}, maxAmountRequired : amounts,
     payTo : payTos, maxTimeoutSeconds : timeouts, asset : {"0xusdc"}, extra : extras]

RECURSIVE StringsUpTo(_, _)
StringsUpTo(chars, n) ==
    IF n = 0 THEN {<<>>}
    ELSE LET shorter == StringsUpTo(chars, n - 1)
         IN  shorter \cup {Append(s, ch) : s \in shorter, ch \in chars}

\* "exact", abbreviated to one Latin-1 letter, and a scheme text outside Latin-1
SchemeExact == <<101>>
SchemeWide == <<8364>>

\* the inputs of the interleaving specification
NarrowTerms == TermsOf({SchemeExact}, {<<49, 48>>}, {"0xp1"}, {60}, {NoExtra})

\* the inputs of the sequential specification: every amount text over "0", "1"
\* and "z" up to MaxAmountLen characters, timeouts around the two thresholds,
\* other schemes, payees and domain names, and terms for another network and asset
WideTerms ==
    TermsOf({SchemeExact}, StringsUpTo({48, 49, 122}, MaxAmountLen), {"0xp1"}, {60},
            {NoExtra})
    \cup TermsOf({SchemeExact}, {<<49, 48>>}, {"0xp1"},
                 {60, 0, 0 - 300, 0 - 301, 0 - 360, 0 - 361}, {NoExtra})
    \cup TermsOf({SchemeExact, SchemeWide}, {<<49, 48>>}, {"0xp1", "0xp2"}, {60},
                 {NoExtra, [name |-> "USDC", version |-> "1"]})
    \cup {[t EXCEPT !.network = "base", !.asset = "0xother"] : t \in NarrowTerms}

DecoyTerms ==
    [scheme |-> SchemeExact, network |-> "base", maxAmountRequired |-> <<57, 57>>,
     payTo |-> "0xp9", maxTimeoutSeconds |-> 5, asset |-> "0xother", extra |-> NoExtra]

\* bodies of a 402 response: text that is not JSON, the JSON value null, an object
\* without accepts, and objects whose accepts lists one or two payment terms
BodiesOf(terms) ==
    {[kind |-> "unparsable", hasAccepts |-> FALSE, accepts |-> <<>>],
     [kind |-> "null", hasAccepts |-> FALSE, accepts |-> <<>>],
     [kind |-> "object", hasAccepts |-> FALSE, accepts |-> <<>>],
     [kind |-> "object", hasAccepts |-> TRUE, accepts |-> <<>>]}
    \cup {[kind |-> "object", hasAccepts |-> TRUE, accepts |-> <<t>>] : t \in terms}
    \cup {[kind |-> "object", hasAccepts |-> TRUE, accepts |-> <<t, DecoyTerms>>] :
            t \in terms}

\* the bodies of the interleaving specification: one list of one payment term each
NarrowBodies == {[kind |-> "object", hasAccepts |-> TRUE, accepts |-> <<t>>] : t \in NarrowTerms}

\* a list of headers: the caller's Accept header and the X-Payment header, each
\* absent or present with a value
EmptyHeaders == [accept |-> None, xPayment |-> None]
AcceptJson == [accept |-> Some("application/json"), xPayment |-> None]

\* the `input` of a wrapped call: a URL, or a Request object with its own method
\* and headers
UrlInput == [kind |-> "url", method |-> "GET", headers |-> EmptyHeaders]
RequestInput == [kind |-> "request", method |-> "POST", headers |-> AcceptJson]

\* the arguments (input, init) of the wrapped calls of the sequential
\* specification: a URL with the method and the headers in init, and a Request
\* object without init
WideRequests ==
    {[input |-> UrlInput, init |-> Some([method |-> Some("POST"), headers |-> Some(AcceptJson)])],
     [input |-> RequestInput, init |-> None]}

\* the arguments of the wrapped calls of the interleaving specification
NarrowRequests == {[input |-> UrlInput, init |-> None]}

\* the request fetch(input, init) sends: the members init has replace those of
\* the input, the headers as a whole
Fetch(input, init) ==
    [method |-> IF init # None /\ init[1].method # None THEN init[1].method[1]
                ELSE input.method,
     headers |-> IF init # None /\ init[1].headers # None THEN init[1].headers[1]
                 ELSE input.headers]

\* `new Headers(init?.headers)` (line 616)
NewHeaders(init) ==
    IF init # None /\ init[1].headers # None THEN init[1].headers[1] ELSE EmptyHeaders

\* `{...init, headers: newHeaders}` (lines 619-622)
RetryInit(init, newHeaders) ==
    Some([method |-> IF init # None THEN init[1].method ELSE None,
          headers |-> Some(newHeaders)])

PlainBody == [kind |-> "unparsable", hasAccepts |-> FALSE, accepts |-> <<>>]

\* the USDC contract of the configured chain
UsdcAddress(chainId) ==
    IF chainId = BaseSepoliaId
    THEN "0x036CbD53842c5426634e7929541eC2318f3dCF7e"
    ELSE "0x833589fCD6eDb6E08f4c7C32D4f71b54bdA02913"

\* a domain that takes the contract to verify from the terms of the server
DomainOfAsset(paymentInfo) == [name |-> "USD Coin", version |-> "2", chainId |-> GetChain.id, verifyingContract |-> paymentInfo.asset]

\* lines 469-480: the EIP-712 domain of the signature
Domain(paymentInfo) ==
    [name |-> IF paymentInfo.extra.name = "" THEN "USD Coin" ELSE paymentInfo.extra.name,
     version |-> IF paymentInfo.extra.version = "" THEN "2" ELSE paymentInfo.extra.version,
     chainId |-> GetChain.id,
     verifyingContract |-> UsdcAddress(GetChain.id)]

\* a nonce whose bytes were never filled from the random source
GenerateNonceUnfilled(draw) == [draw |-> 0, hexLen |-> 2 + 2 * NonceBytes]

\* generateNonce(): toHex of NonceBytes random bytes; `draw` identifies the value
\* the random source returned, `hexLen` is the length of the "0x..." text
GenerateNonce(draw) == [draw |-> draw, hexLen |-> 2 + 2 * NonceBytes]

Message(address, paymentInfo, amount, validAfter, validBefore, nonce) ==
    [from |-> address, to |-> paymentInfo.payTo, value |-> amount,
     validAfter |-> validAfter, validBefore |-> validBefore, nonce |-> nonce]

\* a payload that copies the offered amount text instead of amount.toString()
BuildPayloadRaw(paymentInfo, signature, address, amount, validAfter, validBefore, nonce) ==
    [x402Version |-> X402Version,
     scheme |-> paymentInfo.scheme,
     network |-> paymentInfo.network,
     payload |->
        [signature |-> signature,
         authorization |->
            [from |-> address,
             to |-> paymentInfo.payTo,
             value |-> paymentInfo.maxAmountRequired,
             validAfter |-> BigIntToString(validAfter),
             validBefore |-> BigIntToString(validBefore),
             nonce |-> nonce]]]

\* the x402 payload assembled after the signature arrived
BuildPayload(paymentInfo, signature, address, amount, validAfter, validBefore, nonce) ==
    [x402Version |-> X402Version,
     scheme |-> paymentInfo.scheme,
     network |-> paymentInfo.network,
     payload |->
        [signature |-> signature,
         authorization |->
            [from |-> address,
             to |-> paymentInfo.payTo,
             value |-> BigIntToString(amount),
             validAfter |-> BigIntToString(validAfter),
             validBefore |-> BigIntToString(validBefore),
             nonce |-> nonce]]]

\* JSON.stringify: the members in insertion order
JSONStringify(p) ==
    <<p.x402Version, p.scheme, p.network, p.payload.signature,
      p.payload.authorization.from, p.payload.authorization.to,
      p.payload.authorization.value, p.payload.authorization.validAfter,
      p.payload.authorization.validBefore, p.payload.authorization.nonce>>

\* the payload a JSON text of that shape denotes
JSONParse(j) ==
    [x402Version |-> j[1], scheme |-> j[2], network |-> j[3],
     payload |-> [signature |-> j[4],
                  authorization |-> [from |-> j[5], to |-> j[6], value |-> j[7],
                                     validAfter |-> j[8], validBefore |-> j[9],
                                     nonce |-> j[10]]]]

\* btoa throws InvalidCharacterError on a character above U+00FF; of the payload's
\* strings only the server-supplied scheme can hold one in this model
BtoaOk(j) == IsLatin1(j[2])
Btoa(j) == [base64 |-> j]
Atob(h) == h.base64

EncodePaymentHeader(payload) == Btoa(JSONStringify(payload))

----------------------------------------------------------------------------
(* State *)

\* the WalletState of a session without an account (lines 91-96, 298-303, 639-644)
Disconnected == [isConnected |-> FALSE, address |-> None, chainId |-> None, balance |-> None]

\* the locals of one operation and what it has done so far: `trace` the requests it
\* issued, `provError` the error the provider answered its last failed request with,
\* `thrown` the value it threw, `hadClient` whether walletClient existed when
\* connectWallet was called, `request` the arguments (input, init) of a wrapped
\* call, `retry` the arguments of its second fetch, `clientBefore` what
\* getWalletClient() returned to a caller that read it before it called the signer,
\* `forceNewConnection` the argument of connectWallet
IdleCall ==
    [pc |-> "idle", op |-> "none", trace |-> <<>>, first |-> None, terms |-> None,
     amount |-> 0, address |-> "", validAfter |-> 0, validBefore |-> 0,
     nonce |-> None, sigReq |-> None, payload |-> None, header |-> None,
     second |-> None, returned |-> None, error |-> "", current |-> None, flavour |-> "",
     state |-> None, provError |-> None, thrown |-> None, hadClient |-> FALSE,
     request |-> None, retry |-> None, clientBefore |-> None,
     forceNewConnection |-> FALSE]

Init ==
    /\ hasProvider \in BOOLEAN
    /\ provAccounts \in (IF hasProvider THEN AccountLists ELSE {<<>>})
    /\ provChain \in (IF hasProvider THEN ChainIds ELSE {ForeignChain.id})
    /\ provKnown \in (IF hasProvider /\ provChain # GetChain.id THEN BOOLEAN ELSE {hasProvider})
    /\ walletClient = None
    /\ now = BaseTime
    /\ rng = 0
    /\ nonceLog = <<>>
    /\ subscribed = FALSE
    /\ events = <<>>
    /\ walletState = Disconnected
    /\ call = [c \in Calls |-> IdleCall]

Throw(r, err) == [r EXCEPT !.pc = "threw", !.error = err]

\* the events of the provider as its listeners receive them
AccountsChangedEvent(accounts) == [kind |-> "accountsChanged", accounts |-> accounts]
ChainChangedEvent == [kind |-> "chainChanged", accounts |-> <<>>]

\* window.ethereum emits accountsChanged and chainChanged to the handlers
\* registered at lines 656-657 when its accounts or its chain become `accounts`
\* and `chain`; each handler call is a task of its own, later
EventsAfter(accounts, chain) ==
    events
    \o (IF subscribed /\ accounts # provAccounts
        THEN <<AccountsChangedEvent(accounts)>> ELSE <<>>)
    \o (IF subscribed /\ chain # provChain THEN <<ChainChangedEvent>> ELSE <<>>)

Emits(accounts, chain) ==
    /\ Len(EventsAfter(accounts, chain)) <= MaxEvents
    /\ events' = EventsAfter(accounts, chain)
    /\ UNCHANGED <<subscribed, walletState>>

\* sign calls that have not yet drawn their nonce
AwaitingNonce == {c \in Calls : call[c].pc \in {"ensure", "chainId", "switch", "addChain"}}

NonceAvailable == rng + Cardinality(AwaitingNonce) < MaxNonces

----------------------------------------------------------------------------
(* ensureWalletClient, lines 379-405 *)

\* the synchronous start: the provider check, then the eth_accounts request
EnsureStart(r, pcNext) ==
    IF ~hasProvider THEN Throw(r, "ProviderUnavailable")
    ELSE [r EXCEPT !.pc = pcNext, !.trace = Append(@, "eth_accounts")]

\* the continuation after eth_accounts answered with `accounts`
EnsureOk(accounts) == accounts # <<>>

----------------------------------------------------------------------------
(* signPaymentAuthorization, lines 429-541 *)

\* the call itself up to its first await (inside ensureWalletClient)
SignStart(r, paymentInfo, amount) ==
    EnsureStart([r EXCEPT !.terms = Some(paymentInfo), !.amount = amount,
                          !.trace = Append(@, "signCall")], "ensure")

\* lines 461-520: the validity window, the nonce, the message, and the request of
\* the signature from walletClient || client; wc is walletClient at that moment
SignRequest(r, wc) ==
    LET paymentInfo == r.terms[1]
        validAfter == now - SkewSeconds
        validBefore == now + paymentInfo.maxTimeoutSeconds + ExtraSeconds
        authorizationNonce == GenerateNonce(rng + 1)
        client == CreateWalletClient(r.address)
        signingClient == IF wc # None THEN wc[1] ELSE client
    IN  [r EXCEPT !.pc = "signing",
                  !.validAfter = validAfter,
                  !.validBefore = validBefore,
                  !.nonce = Some(authorizationNonce),
                  !.sigReq = Some([account |-> signingClient.account,
                                   domain |-> Domain(paymentInfo),
                                   primaryType |-> "TransferWithAuthorization",
                                   message |-> Message(r.address, paymentInfo, r.amount,
                                                       validAfter, validBefore,
                                                       authorizationNonce),
                                   at |-> now]),
                  !.trace = @ \o <<"nonce", "signTypedData">>]

\* the draw of the random source, and the record of the nonce the call submitted
DrawNonce(c) ==
    /\ rng' = rng + 1
    /\ nonceLog' = Append(nonceLog, call'[c].sigReq[1].message.nonce)

\* a signer that asks for the accounts again as long as there are none
EnsureAnsweredPolling(c) ==
    /\ call[c].pc = "ensure"
    /\ \E ok \in BOOLEAN :
        IF ~ok THEN
            /\ call' = [call EXCEPT ![c] = Throw(@, "ProviderError")]
            /\ UNCHANGED walletClient
        ELSE IF ~EnsureOk(provAccounts) THEN
            /\ call' = [call EXCEPT ![c] =
                    IF Len(call[c].trace) < 20
                    THEN [@ EXCEPT !.trace = Append(@, "eth_accounts")]
                    ELSE Throw(@, "NotConnected")]
            /\ UNCHANGED walletClient
        ELSE
            /\ walletClient' = Some(CreateWalletClient(provAccounts[1]))
            /\ call' = [call EXCEPT ![c] = [@ EXCEPT !.pc = "chainId",
                                                      !.address = provAccounts[1],
                                                      !.trace = Append(@, "eth_chainId")]]
    /\ UNCHANGED <<hasProvider, bridgeVars, provAccounts, provChain, provKnown, now, rng, nonceLog>>

\* eth_accounts of ensureWalletClient answered (line 385); the client it builds
\* always has an account, so the throw of line 436 is never taken
EnsureAnswered(c) ==
    /\ call[c].pc = "ensure"
    /\ \E ok \in BOOLEAN :
        IF ~ok THEN
            /\ call' = [call EXCEPT ![c] = Throw(@, "ProviderError")]
            /\ UNCHANGED walletClient
        ELSE IF ~EnsureOk(provAccounts) THEN
            /\ call' = [call EXCEPT ![c] = Throw(@, "NotConnected")]
            /\ UNCHANGED walletClient
        ELSE
            /\ walletClient' = Some(CreateWalletClient(provAccounts[1]))
            /\ call' = [call EXCEPT ![c] = [@ EXCEPT !.pc = "chainId",
                                                      !.address = provAccounts[1],
                                                      !.trace = Append(@, "eth_chainId")]]
    /\ UNCHANGED <<hasProvider, bridgeVars, provAccounts, provChain, provKnown, now, rng, nonceLog>>

\* eth_chainId answered (line 443): the chain check
ChainIdAnswered(c) ==
    /\ call[c].pc = "chainId"
    /\ \E ok \in BOOLEAN :
        IF ~ok THEN
            /\ call' = [call EXCEPT ![c] = Throw(@, "ProviderError")]
            /\ UNCHANGED <<rng, nonceLog>>
        ELSE
            LET currentChainIdNum == ParseHex(ToHexString(provChain))
            IN  IF currentChainIdNum # GetChain.id THEN
                    \* switchToCorrectNetwork() up to its wallet_switchEthereumChain
                    /\ call' = [call EXCEPT ![c] =
                                  [@ EXCEPT !.pc = "switch",
                                            !.trace = @ \o <<"chainMismatch",
                                                             "wallet_switchEthereumChain">>]]
                    /\ UNCHANGED <<rng, nonceLog>>
                ELSE
                    /\ call' = [call EXCEPT ![c] =
                                  SignRequest([@ EXCEPT !.trace = Append(@, "chainOk")],
                                              walletClient)]
                    /\ DrawNonce(c)
    /\ UNCHANGED <<hasProvider, bridgeVars, provAccounts, provChain, provKnown, walletClient, now>>

\* a signature requested after the switch from the client built before it
AfterGuardWithoutRebuild(c) ==
    /\ UNCHANGED walletClient
    /\ call' = [call EXCEPT ![c] =
                  SignRequest([@ EXCEPT !.trace = Append(@, "guardOk")], walletClient)]
    /\ DrawNonce(c)

\* lines 450-459 after switchToCorrectNetwork() returned true: the rebuild of the
\* session client with the address read before the switch, then lines 461-520
AfterGuard(c) ==
    /\ walletClient' = Some(CreateWalletClient(call[c].address))
    /\ call' = [call EXCEPT ![c] =
                  SignRequest([@ EXCEPT !.trace = @ \o <<"guardOk", "rebuild">>],
                              Some(CreateWalletClient(call[c].address)))]
    /\ DrawNonce(c)

\* an error the provider rejects a request with: an object with an optional
\* numeric code and a message, an instance of Error or a plain object
ProviderRpcError(code, message, isError) ==
    [code |-> code, message |-> message, isError |-> isError]

UserRejectedRequest == ProviderRpcError(Some(4001), "User rejected the request.", TRUE)
ChainNotAdded == ProviderRpcError(Some(UnrecognizedChain), "Unrecognized chain ID.", TRUE)
InternalError == ProviderRpcError(None, "Internal error", FALSE)

\* `new Error(message)`
NewError(message) == ProviderRpcError(None, message, TRUE)

\* errors of a request other than a chain switch: the user refused, or a failure
\* the provider reports as a plain object
RequestErrors == {UserRejectedRequest, InternalError}

\* the kind of failure a thrown value is to the caller, by its message
KindOf(e) ==
    CASE e = UserRejectedRequest -> "UserRejected"
      [] e.message = "Solicitud cancelada" -> "UserCancelled"
      [] e.message = "Haz clic en el icono de Rabby y selecciona otra cuenta" -> "UseRabbyIcon"
      [] e.message = "Cuenta sin cambios. Usa el icono de Rabby para cambiar." -> "AccountUnchanged"
      [] e.message = "Selecciona una cuenta diferente en tu wallet" -> "AccountUnchanged"
      [] e.message = "No se seleccionó ninguna cuenta" -> "NoAccountsSelected"
      [] e.message = "Error al cambiar de cuenta. Intenta desde tu wallet." -> "SwitchFailed"
      [] OTHER -> "ProviderError"

\* `throw switchError`: the caught value itself leaves the function
Rethrow(r, e) == [r EXCEPT !.pc = "threw", !.error = KindOf(e), !.thrown = Some(e)]

\* the errors of a rejected wallet_switchEthereumChain: the chain is not registered
\* in the wallet (4902), the user refused (4001), or a failure without a code
SwitchErrors(known) ==
    IF known THEN {UserRejectedRequest, InternalError}
    ELSE {ChainNotAdded, UserRejectedRequest, InternalError}

\* a guard that registers the chain after a refusal of the user as well
IsUnrecognizedChainOrRefused(switchError) ==
    switchError.code = Some(UnrecognizedChain) \/ switchError.code = Some(4001)

\* line 345: the error that makes the guard register the chain
IsUnrecognizedChain(switchError) == switchError.code = Some(UnrecognizedChain)

\* switchToCorrectNetwork() called by itself, up to its await (lines 329-341)
SwitchToCorrectNetwork(c) ==
    /\ call[c].pc = "idle"
    /\ call' = [call EXCEPT ![c] =
            IF ~hasProvider THEN Throw([@ EXCEPT !.op = "guard"], "ProviderUnavailable")
            ELSE [@ EXCEPT !.op = "guard", !.pc = "switch",
                           !.trace = <<"wallet_switchEthereumChain">>]]
    /\ UNCHANGED <<hasProvider, bridgeVars, provAccounts, provChain, provKnown, walletClient,
                   now, rng, nonceLog>>

\* a guard that drops the session client once the chain is the right one
GuardReturnsDropping(c) ==
    /\ call' = [call EXCEPT ![c] = [@ EXCEPT !.pc = "returned",
                                              !.trace = Append(@, "guardOk")]]
    /\ walletClient' = None
    /\ UNCHANGED <<rng, nonceLog>>

\* `return true` of switchToCorrectNetwork() (lines 342, 359) called by itself
GuardReturns(c) ==
    /\ call' = [call EXCEPT ![c] = [@ EXCEPT !.pc = "returned",
                                              !.trace = Append(@, "guardOk")]]
    /\ UNCHANGED <<walletClient, rng, nonceLog>>

\* wallet_switchEthereumChain answered (lines 337-365)
SwitchAnswered(c) ==
    /\ call[c].pc = "switch"
    /\ \/ /\ provKnown
          /\ provChain' = ParseHex(ToHexString(GetChain.id))
          /\ IF call[c].op = "guard" THEN GuardReturns(c) ELSE AfterGuard(c)
          /\ UNCHANGED provKnown
       \/ \E switchError \in SwitchErrors(provKnown) :
            /\ call' = [call EXCEPT ![c] =
                  IF IsUnrecognizedChain(switchError)
                  THEN [@ EXCEPT !.pc = "addChain",
                                 !.provError = Some(switchError),
                                 !.trace = Append(@, "wallet_addEthereumChain")]
                  ELSE \* any other error is rethrown as it is
                       Rethrow([@ EXCEPT !.provError = Some(switchError),
                                         !.trace = Append(@, "guardFail")], switchError)]
            /\ UNCHANGED <<provChain, provKnown, walletClient, rng, nonceLog>>
    /\ UNCHANGED <<hasProvider, provAccounts, now>>
    /\ Emits(provAccounts', provChain')

\* wallet_addEthereumChain answered (lines 346-362); a wallet that registers the
\* chain may or may not make it the active one
AddChainAnswered(c) ==
    /\ call[c].pc = "addChain"
    /\ \E ok \in BOOLEAN :
        IF ok THEN
            /\ provKnown' = TRUE
            /\ provChain' \in {provChain, GetChain.id}
            /\ IF call[c].op = "guard" THEN GuardReturns(c) ELSE AfterGuard(c)
        ELSE
            /\ call' = [call EXCEPT ![c] =
                          Throw([@ EXCEPT !.trace = Append(@, "guardFail")],
                                "ChainSwitchFailed")]
            /\ UNCHANGED <<provChain, provKnown, walletClient, rng, nonceLog>>
    /\ UNCHANGED <<hasProvider, provAccounts, now>>
    /\ Emits(provAccounts', provChain')

\* the signature the provider returns for a request: who signed what
Signature(req) == [signer |-> req.account, domain |-> req.domain, message |-> req.message]

\* lines 522-540: the payload of a call whose signature arrived
SignedPayload(r) ==
    BuildPayload(r.terms[1], Signature(r.sigReq[1]), r.address, r.amount,
                 r.validAfter, r.validBefore, r.nonce[1])

\* lines 610-622 of the wrapper: encode the payload, reissue the request
RetryWithPayment(r) ==
    LET paymentPayload == SignedPayload(r)
    IN  IF ~BtoaOk(JSONStringify(paymentPayload))
        THEN Throw([r EXCEPT !.payload = Some(paymentPayload)], "InvalidCharacterError")
        ELSE LET paymentHeader == EncodePaymentHeader(paymentPayload)
                 input == r.request[1].input
                 init == r.request[1].init
                 newHeaders == [NewHeaders(init) EXCEPT !.xPayment = Some(paymentHeader)]
             IN  [r EXCEPT !.pc = "fetch2",
                           !.payload = Some(paymentPayload),
                           !.header = Some(paymentHeader),
                           !.retry = Some([input |-> input,
                                           init |-> RetryInit(init, newHeaders)]),
                           !.trace = Append(@, "http")]

\* a wrapper that calls the signer once more when the signature was refused
SignatureAnsweredRetrying(c) ==
    /\ call[c].pc = "signing"
    /\ \E ok \in BOOLEAN :
        IF ~ok THEN call' = [call EXCEPT ![c] =
                        IF call[c].op = "wrapper" /\ Len(call[c].trace) < 20
                        THEN SignStart(@, call[c].terms[1], call[c].amount)
                        ELSE Throw(@, "UserRejected")]
        ELSE IF call[c].op = "sign"
        THEN call' = [call EXCEPT ![c] = [@ EXCEPT !.pc = "returned",
                                                   !.payload = Some(SignedPayload(call[c]))]]
        ELSE call' = [call EXCEPT ![c] = RetryWithPayment(@)]
    /\ UNCHANGED <<hasProvider, bridgeVars, provAccounts, provChain, provKnown, walletClient, now,
                   rng, nonceLog>>

\* signTypedData answered (line 514)
SignatureAnswered(c) ==
    /\ call[c].pc = "signing"
    /\ \E ok \in BOOLEAN :
        IF ~ok THEN call' = [call EXCEPT ![c] = Throw(@, "UserRejected")]
        ELSE IF call[c].op = "sign"
        THEN call' = [call EXCEPT ![c] = [@ EXCEPT !.pc = "returned",
                                                   !.payload = Some(SignedPayload(call[c]))]]
        ELSE call' = [call EXCEPT ![c] = RetryWithPayment(@)]
    /\ UNCHANGED <<hasProvider, bridgeVars, provAccounts, provChain, provKnown, walletClient, now,
                   rng, nonceLog>>

\* a caller invokes signPaymentAuthorization(paymentInfo, amount) directly
SignDirect(c, terms, amounts) ==
    /\ call[c].pc = "idle"
    /\ NonceAvailable
    /\ \E paymentInfo \in terms, amount \in amounts :
        call' = [call EXCEPT ![c] = SignStart([@ EXCEPT !.op = "sign"], paymentInfo, amount)]
    /\ UNCHANGED <<hasProvider, bridgeVars, provAccounts, provChain, provKnown, walletClient, now,
                   rng, nonceLog>>

\* a caller reads getWalletClient() (lines 371-373) and then, in the same task,
\* invokes signPaymentAuthorization(paymentInfo, amount)
SignAfterGetWalletClient(c, terms, amounts) ==
    /\ call[c].pc = "idle"
    /\ NonceAvailable
    /\ \E paymentInfo \in terms, amount \in amounts :
        call' = [call EXCEPT ![c] =
                    SignStart([@ EXCEPT !.op = "sign", !.clientBefore = Some(walletClient)],
                              paymentInfo, amount)]
    /\ UNCHANGED <<hasProvider, bridgeVars, provAccounts, provChain, provKnown, walletClient, now,
                   rng, nonceLog>>

----------------------------------------------------------------------------
(* createPaymentFetch, lines 561-626 *)

\* createPaymentFetch() up to the await of ensureWalletClient (line 563)
CreatePaymentFetch(c) ==
    /\ call[c].pc = "idle"
    /\ call' = [call EXCEPT ![c] = EnsureStart([@ EXCEPT !.op = "wrapper"], "creating")]
    /\ UNCHANGED <<hasProvider, bridgeVars, provAccounts, provChain, provKnown, walletClient, now,
                   rng, nonceLog>>

\* an ensureWalletClient that keeps the session client it finds
CreateAnsweredCached(c) ==
    /\ call[c].pc = "creating"
    /\ \E ok \in BOOLEAN :
        IF ~ok THEN
            /\ call' = [call EXCEPT ![c] = Throw(@, "ProviderError")]
            /\ UNCHANGED walletClient
        ELSE IF ~EnsureOk(provAccounts) THEN
            /\ call' = [call EXCEPT ![c] = Throw(@, "NotConnected")]
            /\ UNCHANGED walletClient
        ELSE
            /\ walletClient' = IF walletClient # None THEN walletClient
                               ELSE Some(CreateWalletClient(provAccounts[1]))
            /\ call' = [call EXCEPT ![c] = [@ EXCEPT !.pc = "ready"]]
    /\ UNCHANGED <<hasProvider, bridgeVars, provAccounts, provChain, provKnown, now, rng, nonceLog>>

\* eth_accounts of that ensureWalletClient answered: the wrapper is returned
CreateAnswered(c) ==
    /\ call[c].pc = "creating"
    /\ \E ok \in BOOLEAN :
        IF ~ok THEN
            /\ call' = [call EXCEPT ![c] = Throw(@, "ProviderError")]
            /\ UNCHANGED walletClient
        ELSE IF ~EnsureOk(provAccounts) THEN
            /\ call' = [call EXCEPT ![c] = Throw(@, "NotConnected")]
            /\ UNCHANGED walletClient
        ELSE
            /\ walletClient' = Some(CreateWalletClient(provAccounts[1]))
            /\ call' = [call EXCEPT ![c] = [@ EXCEPT !.pc = "ready"]]
    /\ UNCHANGED <<hasProvider, bridgeVars, provAccounts, provChain, provKnown, now, rng, nonceLog>>

\* the wrapper is called: the first request, without payment header (line 568);
\* the trace of the wrapped call starts here
InvokeWrapper(c, requests) ==
    /\ call[c].pc = "ready"
    /\ NonceAvailable
    /\ \E request \in requests :
        call' = [call EXCEPT ![c] = [@ EXCEPT !.pc = "fetch1", !.trace = <<"http">>,
                                              !.request = Some(request)]]
    /\ UNCHANGED <<hasProvider, bridgeVars, provAccounts, provChain, provKnown, walletClient, now,
                   rng, nonceLog>>

\* a payment flow started by every error status
NeedsPaymentOnAnyError(status) == status >= 400

\* line 571: the status that starts the payment flow
NeedsPayment(status) == status = PaymentRequired

Statuses == {200, 500, PaymentRequired}

\* the first response arrived (lines 568-580)
FirstResponse(c, bodies) ==
    /\ call[c].pc = "fetch1"
    /\ \/ call' = [call EXCEPT ![c] = Throw(@, "NetworkError")]
       \/ \E status \in Statuses :
          \E body \in (IF status = PaymentRequired THEN bodies ELSE {PlainBody}) :
            LET firstResponse == [id |-> 1, status |-> status, body |-> body]
            IN  call' = [call EXCEPT ![c] =
                    IF ~NeedsPayment(status)
                    THEN [@ EXCEPT !.pc = "returned",
                                   !.first = Some(firstResponse),
                                   !.returned = Some(firstResponse)]
                    ELSE [@ EXCEPT !.pc = "json", !.first = Some(firstResponse)]]
    /\ UNCHANGED <<hasProvider, bridgeVars, provAccounts, provChain, provKnown, walletClient, now,
                   rng, nonceLog>>

\* the body read without the check of accepts: accepts[0] is undefined and the
\* first use of it throws a TypeError
BodyErrorUnchecked(x402Data) ==
    IF x402Data.kind = "unparsable" THEN "MalformedPaymentTerms"
    ELSE IF x402Data.kind = "null" THEN "TypeError"
    ELSE IF ~x402Data.hasAccepts \/ Len(x402Data.accepts) = 0 THEN "TypeError"
    ELSE ""

\* lines 578-590: what reading the body of the 402 response leads to: the error
\* thrown, or "" when accepts[0] is there to be used
BodyError(x402Data) ==
    IF x402Data.kind = "unparsable" THEN "MalformedPaymentTerms"
    ELSE IF x402Data.kind = "null" THEN "TypeError"
    ELSE IF ~x402Data.hasAccepts \/ Len(x402Data.accepts) = 0 THEN "NoPaymentOptions"
    ELSE ""

\* a wrapper that pays the last of the offered terms
BodyParsedLast(c) ==
    /\ call[c].pc = "json"
    /\ LET x402Data == call[c].first[1].body
       IN  call' = [call EXCEPT ![c] =
             IF BodyError(x402Data) # "" THEN Throw(@, BodyError(x402Data))
             ELSE LET paymentInfo == x402Data.accepts[Len(x402Data.accepts)]
                  IN  IF ~StringToBigIntOk(paymentInfo.maxAmountRequired)
                      THEN Throw(@, "SyntaxError")
                      ELSE SignStart(@, paymentInfo,
                                     StringToBigInt(paymentInfo.maxAmountRequired))]
    /\ UNCHANGED <<hasProvider, bridgeVars, provAccounts, provChain, provKnown, walletClient, now,
                   rng, nonceLog>>

\* firstResponse.json() settled (lines 578-608)
BodyParsed(c) ==
    /\ call[c].pc = "json"
    /\ LET x402Data == call[c].first[1].body
       IN  call' = [call EXCEPT ![c] =
             IF BodyError(x402Data) # "" THEN Throw(@, BodyError(x402Data))
             ELSE LET paymentInfo == x402Data.accepts[1]
                  IN  IF ~StringToBigIntOk(paymentInfo.maxAmountRequired)
                      THEN Throw(@, "SyntaxError")
                      ELSE SignStart(@, paymentInfo,
                                     StringToBigInt(paymentInfo.maxAmountRequired))]
    /\ UNCHANGED <<hasProvider, bridgeVars, provAccounts, provChain, provKnown, walletClient, now,
                   rng, nonceLog>>

\* a retry whose 402 response is handled like the first one
SecondResponseRehandled(c) ==
    /\ call[c].pc = "fetch2"
    /\ \/ call' = [call EXCEPT ![c] = Throw(@, "NetworkError")]
       \/ \E status \in {200, PaymentRequired} :
            LET secondResponse == [id |-> 2, status |-> status, body |-> PlainBody]
            IN  call' = [call EXCEPT ![c] =
                    IF status = PaymentRequired
                    THEN [@ EXCEPT !.pc = "json", !.second = Some(secondResponse)]
                    ELSE [@ EXCEPT !.pc = "returned",
                                   !.second = Some(secondResponse),
                                   !.returned = Some(secondResponse)]]
    /\ UNCHANGED <<hasProvider, bridgeVars, provAccounts, provChain, provKnown, walletClient, now,
                   rng, nonceLog>>

\* the response to the retry arrived (lines 619-624)
SecondResponse(c) ==
    /\ call[c].pc = "fetch2"
    /\ \/ call' = [call EXCEPT ![c] = Throw(@, "NetworkError")]
       \/ \E status \in {200, PaymentRequired} :
            LET secondResponse == [id |-> 2, status |-> status, body |-> PlainBody]
            IN  call' = [call EXCEPT ![c] = [@ EXCEPT !.pc = "returned",
                                                      !.second = Some(secondResponse),
                                                      !.returned = Some(secondResponse)]]
    /\ UNCHANGED <<hasProvider, bridgeVars, provAccounts, provChain, provKnown, walletClient, now,
                   rng, nonceLog>>

\* the caller is done with a finished operation; its slot runs the next one
Reset(c) ==
    /\ call[c].pc \in {"returned", "threw"}
    /\ call' = [call EXCEPT ![c] = IdleCall]
    /\ UNCHANGED <<hasProvider, bridgeVars, provAccounts, provChain, provKnown, walletClient, now,
                   rng, nonceLog>>

----------------------------------------------------------------------------
(* The wallet session: connectWallet, disconnectWallet, switchAccount *)

\* balances the provider reports, in units of 10^13 wei (a hundred-thousandth of
\* the native unit), so that the rounding of toFixed(4) can be computed
ProviderBalances == {0, 123456}

PadLeft(s, n) == [i \in 1..(n - Len(s)) |-> 48] \o s

\* (parseInt(balance, 16) / 1e18).toFixed(4)
ToFixed4(units) ==
    LET rounded == (units + 5) \div 10
    IN  NatToString(rounded \div 10000) \o <<46>> \o PadLeft(NatToString(rounded % 10000), 4)

\* a connected shape built without looking at the account
ConnectedUnaddressed(address, chainIdHex, balance) == [isConnected |-> TRUE, address |-> None, chainId |-> Some(ParseHex(chainIdHex)), balance |-> balance]

Connected(address, chainIdHex, balance) ==
    [isConnected |-> TRUE, address |-> Some(address),
     chainId |-> Some(ParseHex(chainIdHex)), balance |-> balance]

\* a comparison of the addresses as they are spelled
ToLowerCaseIdentity(a) == a

\* address.toLowerCase() of the modelled addresses
ToLowerCase(a) == IF a = "0xAA" THEN "0xaa" ELSE a

\* accounts the user can pick in the wallet's account picker
PickableLists == AccountLists \ {<<>>}

\* connectWallet(forceNewConnection) up to its first await (lines 82-107)
ConnectWallet(c) ==
    /\ call[c].pc = "idle"
    /\ \E forceNewConnection \in BOOLEAN :
        call' = [call EXCEPT ![c] =
            IF ~hasProvider THEN Throw([@ EXCEPT !.op = "connect"], "ProviderUnavailable")
            ELSE IF forceNewConnection
            THEN [@ EXCEPT !.op = "connect", !.pc = "connPerm",
                           !.forceNewConnection = TRUE,
                           !.hadClient = (walletClient # None),
                           !.trace = <<"wallet_requestPermissions">>]
            ELSE [@ EXCEPT !.op = "connect", !.pc = "connAccounts",
                           !.hadClient = (walletClient # None),
                           !.trace = <<"eth_requestAccounts">>]]
    /\ UNCHANGED <<hasProvider, bridgeVars, provAccounts, provChain, provKnown, walletClient, now,
                   rng, nonceLog>>

\* a connectWallet that gives up when the permission request is refused
ConnectPermAnsweredStrict(c) ==
    /\ call[c].pc = "connPerm"
    /\ \/ /\ \E accounts \in PickableLists : provAccounts' = accounts
          /\ call' = [call EXCEPT ![c] = [@ EXCEPT !.pc = "connAccounts",
                                                    !.trace = Append(@, "eth_requestAccounts")]]
       \/ /\ UNCHANGED provAccounts
          /\ call' = [call EXCEPT ![c] = Rethrow(@, UserRejectedRequest)]
    /\ UNCHANGED <<hasProvider, provChain, provKnown, walletClient, now, rng, nonceLog>>
    /\ Emits(provAccounts', provChain')

\* wallet_requestPermissions answered (lines 93-101): a failure is logged only
ConnectPermAnswered(c) ==
    /\ call[c].pc = "connPerm"
    /\ \/ \E accounts \in PickableLists : provAccounts' = accounts
       \/ UNCHANGED provAccounts
    /\ call' = [call EXCEPT ![c] = [@ EXCEPT !.pc = "connAccounts",
                                              !.trace = Append(@, "eth_requestAccounts")]]
    /\ UNCHANGED <<hasProvider, provChain, provKnown, walletClient, now, rng, nonceLog>>
    /\ Emits(provAccounts', provChain')

\* a session client built from accounts[0] before the result is looked at
ClientAfterAccountsUnchecked(accounts, wc) ==
    Some(CreateWalletClient(IF Len(accounts) = 0 THEN "undefined" ELSE accounts[1]))

\* lines 109-120: walletClient after eth_requestAccounts returned `accounts`, wc
\* being walletClient before
ClientAfterAccounts(accounts, wc) ==
    IF Len(accounts) = 0 THEN wc ELSE Some(CreateWalletClient(accounts[1]))

\* eth_requestAccounts answered (lines 105-125)
ConnectAccountsAnswered(c, errors) ==
    /\ call[c].pc = "connAccounts"
    /\ \/ \E e \in errors :
            /\ call' = [call EXCEPT ![c] = Rethrow([@ EXCEPT !.provError = Some(e)], e)]
            /\ UNCHANGED <<provAccounts, walletClient>>
       \/ \E accounts \in (IF provAccounts = <<>> THEN AccountLists ELSE {provAccounts}) :
            /\ provAccounts' = accounts
            /\ walletClient' = ClientAfterAccounts(accounts, walletClient)
            /\ IF Len(accounts) = 0 THEN
                    call' = [call EXCEPT ![c] = Throw(@, "NoAccountsSelected")]
               ELSE
                    call' = [call EXCEPT ![c] = [@ EXCEPT !.pc = "connChain",
                                                              !.address = accounts[1],
                                                              !.trace = Append(@, "eth_chainId")]]
    /\ UNCHANGED <<hasProvider, provChain, provKnown, now, rng, nonceLog>>
    /\ Emits(provAccounts', provChain')

\* the modelled messages that hold 'User rejected' or 'user rejected'
IncludesUserRejected(message) == message \in {"User rejected the request."}

\* the catch of switchAccount (lines 266-275): an Error whose message holds
\* 'User rejected' becomes 'Solicitud cancelada', any other Error is rethrown, and
\* a value that is not an Error becomes a generic failure
NormalizeSwitchError(r, error) ==
    IF error.isError
    THEN IF IncludesUserRejected(error.message)
         THEN Rethrow(r, NewError("Solicitud cancelada"))
         ELSE Rethrow(r, error)
    ELSE Rethrow(r, NewError("Error al cambiar de cuenta. Intenta desde tu wallet."))

\* a provider request of connectWallet or switchAccount failed with e: the catch of
\* connectWallet rethrows it (lines 142-145), that of switchAccount normalizes it
RequestFailed(r, e) ==
    IF r.op = "switchAccount"
    THEN NormalizeSwitchError([r EXCEPT !.provError = Some(e)], e)
    ELSE Rethrow([r EXCEPT !.provError = Some(e)], e)

\* eth_chainId answered inside connectWallet or switchAccount (lines 123, 249)
StateChainAnswered(c) ==
    /\ call[c].pc \in {"connChain", "swChain"}
    /\ \E ok \in BOOLEAN :
        call' = [call EXCEPT ![c] =
            IF ~ok THEN RequestFailed(@, InternalError)
            ELSE [@ EXCEPT !.pc = IF @ = "connChain" THEN "connBalance" ELSE "swBalance",
                           !.state = Some(Connected(call[c].address, ToHexString(provChain),
                                                    None)),
                           !.trace = Append(@, "eth_getBalance")]]
    /\ UNCHANGED <<hasProvider, bridgeVars, provAccounts, provChain, provKnown, walletClient,
                   now, rng, nonceLog>>

\* eth_getBalance answered (lines 128-141, 253-265): the WalletState is returned
StateBalanceAnswered(c, balances) ==
    /\ call[c].pc \in {"connBalance", "swBalance"}
    /\ \/ call' = [call EXCEPT ![c] = RequestFailed([@ EXCEPT !.state = None],
                                                    InternalError)]
       \/ \E units \in balances :
            call' = [call EXCEPT ![c] =
                [@ EXCEPT !.pc = "returned",
                          !.state = Some([@[1] EXCEPT !.balance = Some(ToFixed4(units))])]]
    /\ UNCHANGED <<hasProvider, bridgeVars, provAccounts, provChain, provKnown, walletClient, now,
                   rng, nonceLog>>

\* disconnectWallet() up to its await (lines 152-162): the client is cleared first
DisconnectWallet(c) ==
    /\ call[c].pc = "idle"
    /\ walletClient' = None
    /\ call' = [call EXCEPT ![c] =
            IF hasProvider
            THEN [@ EXCEPT !.op = "disconnect", !.pc = "revoke",
                           !.trace = <<"wallet_revokePermissions">>]
            ELSE [@ EXCEPT !.op = "disconnect", !.pc = "returned"]]
    /\ UNCHANGED <<hasProvider, bridgeVars, provAccounts, provChain, provKnown, now, rng, nonceLog>>

\* wallet_revokePermissions answered (lines 159-166): a failure is swallowed
RevokeAnswered(c) ==
    /\ call[c].pc = "revoke"
    /\ \/ /\ provAccounts' = <<>>
          /\ call' = [call EXCEPT ![c] = [@ EXCEPT !.pc = "returned"]]
       \/ /\ UNCHANGED provAccounts
          /\ call' = [call EXCEPT ![c] = [@ EXCEPT !.pc = "returned",
                                                    !.provError = Some(InternalError)]]
    /\ UNCHANGED <<hasProvider, provChain, provKnown, walletClient, now, rng,
                   nonceLog>>
    /\ Emits(provAccounts', provChain')

WalletTypes == {"rabby", "metamask", "other"}

\* switchAccount() up to its first await (lines 188-200); detectWalletType() reads
\* flags of the provider that never change, so the model draws the wallet type
\* where the code uses it (lines 203 and 236)
SwitchAccount(c) ==
    /\ call[c].pc = "idle"
    /\ call' = [call EXCEPT ![c] =
            IF ~hasProvider THEN Throw([@ EXCEPT !.op = "switchAccount"], "ProviderUnavailable")
            ELSE [@ EXCEPT !.op = "switchAccount", !.pc = "swCurrent",
                           !.trace = <<"eth_accounts">>]]
    /\ UNCHANGED <<hasProvider, bridgeVars, provAccounts, provChain, provKnown, walletClient,
                   now, rng, nonceLog>>

\* a caller reads getWalletClient() (lines 371-373) and then, in the same task,
\* invokes switchAccount()
SwitchAfterGetWalletClient(c) ==
    /\ call[c].pc = "idle"
    /\ call' = [call EXCEPT ![c] =
            IF ~hasProvider
            THEN Throw([@ EXCEPT !.op = "switchAccount", !.clientBefore = Some(walletClient)],
                       "ProviderUnavailable")
            ELSE [@ EXCEPT !.op = "switchAccount", !.pc = "swCurrent",
                           !.clientBefore = Some(walletClient),
                           !.trace = <<"eth_accounts">>]]
    /\ UNCHANGED <<hasProvider, bridgeVars, provAccounts, provChain, provKnown, walletClient,
                   now, rng, nonceLog>>

\* the spellings in which a provider reports the list: as it is, or with the
\* letters of its first address in upper case
Spellings(accounts) ==
    {accounts} \cup (IF accounts = <<"0xaa">> THEN {<<"0xAA">>} ELSE {})

SpelledLists == AccountLists \cup {<<"0xAA">>}

\* the first eth_accounts answered (lines 198-221): the address to compare with
SwitchCurrentAnswered(c, spellings) ==
    /\ call[c].pc = "swCurrent"
    /\ \/ call' = [call EXCEPT ![c] = RequestFailed(@, InternalError)]
       \/ \E currentAccounts \in Spellings(provAccounts) \cap spellings :
            call' = [call EXCEPT ![c] =
                [@ EXCEPT !.pc = "swPerm",
                          !.current = currentAccounts,
                          !.trace = Append(@, "wallet_requestPermissions")]]
    /\ UNCHANGED <<hasProvider, bridgeVars, provAccounts, provChain, provKnown, walletClient,
                   now, rng, nonceLog>>

\* wallet_requestPermissions answered (lines 203-226); for rabby the inner catch
\* (lines 211-214) replaces whatever was thrown by an instruction
SwitchPermAnswered(c, walletTypes, errors) ==
    /\ call[c].pc = "swPerm"
    /\ \/ \E accounts \in PickableLists :
            /\ provAccounts' = accounts
            /\ call' = [call EXCEPT ![c] = [@ EXCEPT !.pc = "swNew",
                                                      !.trace = Append(@, "eth_accounts")]]
       \/ /\ UNCHANGED provAccounts
          /\ \E walletType \in walletTypes, e \in errors :
                call' = [call EXCEPT ![c] =
                    NormalizeSwitchError(
                        [@ EXCEPT !.flavour = walletType, !.provError = Some(e)],
                        IF walletType = "rabby"
                        THEN NewError("Haz clic en el icono de Rabby y selecciona otra cuenta")
                        ELSE e)]
    /\ UNCHANGED <<hasProvider, provChain, provKnown, walletClient, now, rng,
                   nonceLog>>
    /\ Emits(provAccounts', provChain')

\* the second eth_accounts answered (lines 224-251)
SwitchNewAnswered(c, walletTypes) ==
    /\ call[c].pc = "swNew"
    /\ \E ok \in BOOLEAN :
        IF ~ok THEN
            /\ call' = [call EXCEPT ![c] = RequestFailed(@, InternalError)]
            /\ UNCHANGED walletClient
        ELSE IF Len(provAccounts) = 0 THEN
            /\ call' = [call EXCEPT ![c] =
                          NormalizeSwitchError(@, NewError("No se seleccionó ninguna cuenta"))]
            /\ UNCHANGED walletClient
        ELSE IF /\ call[c].current # <<>>
                /\ ToLowerCase(provAccounts[1]) = ToLowerCase(call[c].current[1]) THEN
            /\ \E walletType \in walletTypes :
                call' = [call EXCEPT ![c] =
                    NormalizeSwitchError(
                        [@ EXCEPT !.flavour = walletType, !.address = provAccounts[1]],
                        IF walletType = "rabby"
                        THEN NewError("Cuenta sin cambios. Usa el icono de Rabby para cambiar.")
                        ELSE NewError("Selecciona una cuenta diferente en tu wallet"))]
            /\ UNCHANGED walletClient
        ELSE
            /\ walletClient' = Some(CreateWalletClient(provAccounts[1]))
            /\ call' = [call EXCEPT ![c] = [@ EXCEPT !.pc = "swChain",
                                                      !.address = provAccounts[1],
                                                      !.trace = Append(@, "eth_chainId")]]
    /\ UNCHANGED <<hasProvider, bridgeVars, provAccounts, provChain, provKnown, now, rng,
                   nonceLog>>

----------------------------------------------------------------------------
(* getWalletState, lines 281-324 *)

\* a catch that lets the failure of the provider reach the caller
GetStateCatchRethrow(r, e) == Rethrow([r EXCEPT !.provError = Some(e)], e)

\* the catch of getWalletState (lines 316-323): the disconnected shape
GetStateCatch(r, e) == [r EXCEPT !.pc = "returned", !.state = Some(Disconnected), !.provError = Some(e)]

\* the callback the application passed to onWalletChange (App, lines 44-50)
Callback(newState) == walletState' = newState

\* a handler of onWalletChange passes the state it awaited to the callback
\* (lines 647 and 653); getWalletState called by itself only returns it
HandlerContinues(c) ==
    IF call[c].op = "handler" /\ call'[c].pc = "returned"
    THEN Callback(call'[c].state[1])
    ELSE UNCHANGED walletState

\* getWalletState() up to its first await (lines 281-294)
GetWalletState(c) ==
    /\ call[c].pc = "idle"
    /\ call' = [call EXCEPT ![c] =
            IF ~hasProvider
            THEN [@ EXCEPT !.op = "getState", !.pc = "returned", !.state = Some(Disconnected)]
            ELSE [@ EXCEPT !.op = "getState", !.pc = "gsAccounts",
                           !.trace = <<"eth_accounts">>]]
    /\ UNCHANGED <<hasProvider, bridgeVars, provAccounts, provChain, provKnown, walletClient,
                   now, rng, nonceLog>>

\* eth_accounts answered (lines 292-308)
GetStateAccountsAnswered(c) ==
    /\ call[c].pc = "gsAccounts"
    /\ \E ok \in BOOLEAN :
        call' = [call EXCEPT ![c] =
            IF ~ok THEN GetStateCatch(@, InternalError)
            ELSE IF Len(provAccounts) = 0
            THEN [@ EXCEPT !.pc = "returned", !.current = provAccounts,
                           !.state = Some(Disconnected)]
            ELSE [@ EXCEPT !.pc = "gsChain", !.current = provAccounts,
                           !.address = provAccounts[1],
                           !.trace = Append(@, "eth_chainId")]]
    /\ UNCHANGED <<hasProvider, subscribed, events, provAccounts, provChain, provKnown, walletClient,
                   now, rng, nonceLog>>
    /\ HandlerContinues(c)

\* eth_chainId answered (lines 306-315)
GetStateChainAnswered(c) ==
    /\ call[c].pc = "gsChain"
    /\ \E ok \in BOOLEAN :
        call' = [call EXCEPT ![c] =
            IF ~ok THEN GetStateCatch(@, InternalError)
            ELSE [@ EXCEPT !.pc = "returned",
                           !.state = Some(Connected(call[c].address, ToHexString(provChain),
                                                    None))]]
    /\ UNCHANGED <<hasProvider, subscribed, events, provAccounts, provChain, provKnown, walletClient,
                   now, rng, nonceLog>>
    /\ HandlerContinues(c)

----------------------------------------------------------------------------
(* Environment *)

\* the user selects another account, or revokes the site, in the wallet
UserChangesAccount ==
    /\ hasProvider
    /\ \E accounts \in AccountLists \ {provAccounts} : provAccounts' = accounts
    /\ UNCHANGED <<hasProvider, provChain, provKnown, walletClient, now, rng, nonceLog, call>>
    /\ Emits(provAccounts', provChain')

\* the user makes another registered chain the active one in the wallet
UserChangesChain ==
    /\ hasProvider
    /\ \E id \in ChainIds \ {provChain} :
        /\ id = GetChain.id => provKnown
        /\ provChain' = id
    /\ UNCHANGED <<hasProvider, provAccounts, provKnown, walletClient, now, rng, nonceLog, call>>
    /\ Emits(provAccounts', provChain')

\* the application mounts its effect: onWalletChange(callback) registers the two
\* handlers (lines 631-657; App, lines 42-53)
OnWalletChange ==
    /\ hasProvider
    /\ ~subscribed
    /\ subscribed' = TRUE
    /\ UNCHANGED <<hasProvider, provAccounts, provChain, provKnown, walletClient, now, rng,
                   nonceLog, events, walletState, call>>

\* the cleanup onWalletChange returned (lines 660-663): the handlers are removed,
\* the provider calls them no more
Cleanup ==
    /\ subscribed
    /\ subscribed' = FALSE
    /\ events' = <<>>
    /\ UNCHANGED <<hasProvider, provAccounts, provChain, provKnown, walletClient, now, rng,
                   nonceLog, walletState, call>>

\* a handler up to its await of getWalletState() (lines 646 and 652, then 281-294)
HandlerAwaits(c) ==
    /\ call[c].pc = "idle"
    /\ call' = [call EXCEPT ![c] = [@ EXCEPT !.op = "handler", !.pc = "gsAccounts",
                                              !.trace = <<"eth_accounts">>]]
    /\ UNCHANGED walletState

\* a handler that asks the provider for the state whatever the event carries
HandleAccountsChangedAsking ==
    /\ subscribed
    /\ events # <<>>
    /\ Head(events).kind = "accountsChanged"
    /\ events' = Tail(events)
    /\ HandlerAwaits(2)
    /\ UNCHANGED <<hasProvider, provAccounts, provChain, provKnown, walletClient, now, rng,
                   nonceLog, subscribed>>

\* the provider calls handleAccountsChanged(accounts) (lines 636-649)
HandleAccountsChanged ==
    /\ subscribed
    /\ events # <<>>
    /\ Head(events).kind = "accountsChanged"
    /\ events' = Tail(events)
    /\ IF Len(Head(events).accounts) = 0
       THEN Callback(Disconnected) /\ UNCHANGED call
       ELSE HandlerAwaits(2)
    /\ UNCHANGED <<hasProvider, provAccounts, provChain, provKnown, walletClient, now, rng,
                   nonceLog, subscribed>>

\* the provider calls handleChainChanged() (lines 651-654)
HandleChainChanged ==
    /\ subscribed
    /\ events # <<>>
    /\ Head(events).kind = "chainChanged"
    /\ events' = Tail(events)
    /\ HandlerAwaits(2)
    /\ UNCHANGED <<hasProvider, provAccounts, provChain, provKnown, walletClient, now, rng,
                   nonceLog, subscribed>>

\* the application takes the WalletState connectWallet or switchAccount returned
\* (App, lines 82-83; Header, lines 71-74), or the disconnected one once
\* disconnectWallet returned (App, lines 96-102)
SetWalletState(c) ==
    /\ call[c].pc = "returned"
    /\ call[c].op \in {"connect", "switchAccount", "disconnect"}
    /\ walletState' = (IF call[c].op = "disconnect" THEN Disconnected ELSE call[c].state[1])
    /\ call' = [call EXCEPT ![c] = IdleCall]
    /\ UNCHANGED <<hasProvider, provAccounts, provChain, provKnown, walletClient, now, rng,
                   nonceLog, subscribed, events>>

Tick ==
    /\ now < BaseTime + MaxTicks
    /\ now' = now + 1
    /\ UNCHANGED <<hasProvider, bridgeVars, provAccounts, provChain, provKnown, walletClient, rng,
                   nonceLog, call>>

----------------------------------------------------------------------------
(* Specifications *)

DirectAmounts == {0, 7, 10}

\* A wrapped request in slot 1 interleaved at every await with one other operation
\* in slot 2: connect, switchAccount, disconnect, createPaymentFetch (its
\* ensureWalletClient) or a direct signPaymentAuthorization; narrow inputs.
Next ==
    \/ InvokeWrapper(1, NarrowRequests)
    \/ FirstResponse(1, NarrowBodies)
    \/ BodyParsed(1)
    \/ SecondResponse(1)
    \/ SignDirect(2, NarrowTerms, {10})
    \/ ConnectWallet(2)
    \/ ConnectPermAnswered(2)
    \/ ConnectAccountsAnswered(2, {UserRejectedRequest})
    \/ StateChainAnswered(2)
    \/ StateBalanceAnswered(2, {0})
    \/ DisconnectWallet(2)
    \/ RevokeAnswered(2)
    \/ SwitchAccount(2)
    \/ SwitchCurrentAnswered(2, AccountLists)
    \/ SwitchPermAnswered(2, {"metamask"}, {UserRejectedRequest})
    \/ SwitchNewAnswered(2, {"metamask"})
    \/ \E c \in Calls :
        \/ CreatePaymentFetch(c)
        \/ CreateAnswered(c)
        \/ EnsureAnswered(c)
        \/ ChainIdAnswered(c)
        \/ SwitchAnswered(c)
        \/ AddChainAnswered(c)
        \/ SignatureAnswered(c)
        \/ Reset(c)
    \/ UserChangesAccount
    \/ UserChangesChain

Spec == Init /\ [][Next]_vars

\* one operation at a time: the wrapper and the signer on the wide inputs, the
\* chain guard by itself, and the operations of the wallet session
NextSeq ==
    \/ CreatePaymentFetch(1)
    \/ CreateAnswered(1)
    \/ InvokeWrapper(1, WideRequests)
    \/ FirstResponse(1, BodiesOf(WideTerms))
    \/ BodyParsed(1)
    \/ SignDirect(1, WideTerms, DirectAmounts)
    \/ SwitchToCorrectNetwork(1)
    \/ ConnectWallet(1)
    \/ ConnectPermAnswered(1)
    \/ ConnectAccountsAnswered(1, RequestErrors)
    \/ StateChainAnswered(1)
    \/ StateBalanceAnswered(1, ProviderBalances)
    \/ DisconnectWallet(1)
    \/ RevokeAnswered(1)
    \/ SwitchAccount(1)
    \/ SwitchCurrentAnswered(1, SpelledLists)
    \/ SwitchPermAnswered(1, WalletTypes, RequestErrors)
    \/ SwitchNewAnswered(1, WalletTypes)
    \/ GetWalletState(1)
    \/ GetStateAccountsAnswered(1)
    \/ GetStateChainAnswered(1)
    \/ EnsureAnswered(1)
    \/ ChainIdAnswered(1)
    \/ SwitchAnswered(1)
    \/ AddChainAnswered(1)
    \/ SignatureAnswered(1)
    \/ SecondResponse(1)
    \/ Reset(1)
    \/ UserChangesAccount
    \/ UserChangesChain
    \/ Tick

SpecSeq == Init /\ [][NextSeq]_vars

\* the application with its subscription to the provider's events: the session
\* operations it starts one at a time in slot 1, and one handler of onWalletChange
\* at a time in slot 2
NextBridge ==
    \/ OnWalletChange
    \/ Cleanup
    \/ HandleAccountsChanged
    \/ HandleChainChanged
    \/ ConnectWallet(1)
    \/ ConnectPermAnswered(1)
    \/ ConnectAccountsAnswered(1, {UserRejectedRequest})
    \/ StateChainAnswered(1)
    \/ StateBalanceAnswered(1, {0})
    \/ DisconnectWallet(1)
    \/ RevokeAnswered(1)
    \/ SwitchAccount(1)
    \/ SwitchCurrentAnswered(1, AccountLists)
    \/ SwitchPermAnswered(1, {"metamask"}, {UserRejectedRequest})
    \/ SwitchNewAnswered(1, {"metamask"})
    \/ GetWalletState(1)
    \/ SetWalletState(1)
    \/ \E c \in Calls :
        \/ GetStateAccountsAnswered(c)
        \/ GetStateChainAnswered(c)
        \/ Reset(c)
    \/ UserChangesAccount
    \/ UserChangesChain

SpecBridge == Init /\ [][NextBridge]_vars

\* a caller of the signer and of switchAccount that looks at the session client
\* before each call, between connects and disconnects of the session
NextSign ==
    \/ SignAfterGetWalletClient(1, NarrowTerms, {10})
    \/ SwitchAfterGetWalletClient(1)
    \/ SwitchCurrentAnswered(1, AccountLists)
    \/ SwitchPermAnswered(1, {"metamask"}, {UserRejectedRequest})
    \/ SwitchNewAnswered(1, {"metamask"})
    \/ EnsureAnswered(1)
    \/ ChainIdAnswered(1)
    \/ SwitchAnswered(1)
    \/ AddChainAnswered(1)
    \/ SignatureAnswered(1)
    \/ ConnectWallet(1)
    \/ ConnectPermAnswered(1)
    \/ ConnectAccountsAnswered(1, {UserRejectedRequest})
    \/ StateChainAnswered(1)
    \/ StateBalanceAnswered(1, {0})
    \/ DisconnectWallet(1)
    \/ RevokeAnswered(1)
    \/ Reset(1)
    \/ UserChangesAccount
    \/ UserChangesChain

SpecSign == Init /\ [][NextSign]_vars

\* everything that runs beside the session operations: the wrapped request, the
\* chain guard by itself, getWalletState, and the handlers of onWalletChange,
\* with a disconnect between them
NextFrame ==
    \/ OnWalletChange
    \/ Cleanup
    \/ HandleAccountsChanged
    \/ HandleChainChanged
    \/ GetWalletState(1)
    \/ SwitchToCorrectNetwork(1)
    \/ CreatePaymentFetch(1)
    \/ CreateAnswered(1)
    \/ InvokeWrapper(1, NarrowRequests)
    \/ FirstResponse(1, BodiesOf(NarrowTerms))
    \/ BodyParsed(1)
    \/ SecondResponse(1)
    \/ DisconnectWallet(1)
    \/ RevokeAnswered(1)
    \/ \E c \in Calls :
        \/ GetStateAccountsAnswered(c)
        \/ GetStateChainAnswered(c)
        \/ EnsureAnswered(c)
        \/ ChainIdAnswered(c)
        \/ SwitchAnswered(c)
        \/ AddChainAnswered(c)
        \/ SignatureAnswered(c)
        \/ Reset(c)
    \/ UserChangesAccount
    \/ UserChangesChain

SpecFrame == Init /\ [][NextFrame]_vars

\* a subscription that is never removed, and nothing but the events of the
\* provider and their handlers
NextEvents ==
    \/ OnWalletChange
    \/ HandleAccountsChanged
    \/ HandleChainChanged
    \/ \E c \in Calls :
        \/ GetStateAccountsAnswered(c)
        \/ GetStateChainAnswered(c)
        \/ Reset(c)
    \/ UserChangesAccount
    \/ UserChangesChain

SpecEvents == Init /\ [][NextEvents]_vars

\* the calls a caller starts, one at a time
Starts ==
    \/ CreatePaymentFetch(1)
    \/ InvokeWrapper(1, NarrowRequests)
    \/ SignDirect(1, NarrowTerms, {10})
    \/ ConnectWallet(1)
    \/ DisconnectWallet(1)
    \/ SwitchAccount(1)
    \/ Reset(1)

\* the provider or the network answers the request a call is suspended on, or
\* the body of a response that arrived is read
Answers ==
    \/ CreateAnswered(1)
    \/ FirstResponse(1, BodiesOf(NarrowTerms))
    \/ BodyParsed(1)
    \/ EnsureAnswered(1)
    \/ ChainIdAnswered(1)
    \/ SwitchAnswered(1)
    \/ AddChainAnswered(1)
    \/ SignatureAnswered(1)
    \/ SecondResponse(1)
    \/ ConnectPermAnswered(1)
    \/ ConnectAccountsAnswered(1, {UserRejectedRequest})
    \/ StateChainAnswered(1)
    \/ StateBalanceAnswered(1, {0})
    \/ RevokeAnswered(1)
    \/ SwitchCurrentAnswered(1, AccountLists)
    \/ SwitchPermAnswered(1, {"metamask"}, {UserRejectedRequest})
    \/ SwitchNewAnswered(1, {"metamask"})

NextLive ==
    \/ Starts
    \/ Answers
    \/ UserChangesAccount
    \/ UserChangesChain

\* the provider and the network eventually answer every request made to them;
\* nothing obliges a caller to start a call or the user to act
SpecLive == Init /\ [][NextLive]_vars /\ WF_vars(Answers)

----------------------------------------------------------------------------
(* Properties *)

Count(seq, e) == Cardinality({i \in DOMAIN seq : seq[i] = e})
Has(seq, e) == \E i \in DOMAIN seq : seq[i] = e
Pos(seq, e) == CHOOSE i \in DOMAIN seq : seq[i] = e /\ \A j \in 1..(i - 1) : seq[j] # e
Precedes(seq, a, b) == Has(seq, a) /\ Has(seq, b) /\ Pos(seq, a) < Pos(seq, b)
NoDuplicates(seq) == \A i, j \in DOMAIN seq : i # j => seq[i] # seq[j]

\* the wrapped call in slot c has issued its second request
SecondIssued(c) == call[c].op = "wrapper" /\ call[c].header # None

\* accepts[0].maxAmountRequired of the 402 response the call received
OfferedAmount(c) == call[c].first[1].body.accepts[1].maxAmountRequired

\* what the server reads back from the X-Payment header of the second request
SentPayload(c) == JSONParse(Atob(call[c].header[1]))

\* a decimal numeral as toString prints it: digits, not empty, no leading zero
IsCanonicalDecimal(s) == Len(s) > 0 /\ AllDigits(s) /\ (Len(s) > 1 => s[1] # 48)

\* C1 as stated: the second request carries base64(JSON(payload)) of the signer's
\* payload, and the payload's authorization.value is the very text
\* accepts[0].maxAmountRequired.
C1_ValueIsOfferedText ==
    \A c \in Calls :
        SecondIssued(c) =>
            /\ call[c].header[1] = EncodePaymentHeader(call[c].payload[1])
            /\ SentPayload(c) = call[c].payload[1]
            /\ SentPayload(c).payload.authorization.value = OfferedAmount(c)

\* C1 as amended: the second request carries base64(JSON(payload)) of the signer's
\* payload, and authorization.value is the canonical decimal numeral of the integer
\* that accepts[0].maxAmountRequired denotes; it is the offered text itself exactly
\* when that text is a canonical decimal numeral.
C1_ValueIsOfferedAmount ==
    \A c \in Calls :
        SecondIssued(c) =>
            LET value == SentPayload(c).payload.authorization.value
            IN  /\ call[c].header[1] = EncodePaymentHeader(call[c].payload[1])
                /\ SentPayload(c) = call[c].payload[1]
                /\ IsCanonicalDecimal(value)
                /\ DecValue(value) = DecValue(OfferedAmount(c))
                /\ (value = OfferedAmount(c)) <=> IsCanonicalDecimal(OfferedAmount(c))

\* a retry was sent for the offered text "01", with value "1"
C1_Witness ==
    \E c \in Calls :
        /\ SecondIssued(c)
        /\ OfferedAmount(c) = <<48, 49>>
        /\ SentPayload(c).payload.authorization.value = <<49>>

\* C2: a wrapped call whose first response is not a 402 returns that response, has
\* issued one HTTP request and nothing else: no signer call, no provider request.
C2_NonPaymentPassesThrough ==
    \A c \in Calls :
        (call[c].op = "wrapper" /\ call[c].first # None
            /\ call[c].first[1].status # PaymentRequired) =>
            /\ call[c].pc = "returned"
            /\ call[c].returned = call[c].first
            /\ call[c].trace = <<"http">>

\* a wrapped call returned a 500 response
C2_Witness ==
    \E c \in Calls :
        /\ call[c].op = "wrapper"
        /\ call[c].pc = "returned"
        /\ call[c].returned # None
        /\ call[c].returned[1].status = 500

\* the body of the first response is an object whose accepts is absent or empty
NoAccepts(c) ==
    /\ call[c].first[1].body.kind = "object"
    /\ ~call[c].first[1].body.hasAccepts \/ call[c].first[1].body.accepts = <<>>

\* C3: a wrapped call whose 402 body has an empty or absent accepts list throws
\* NoPaymentOptions, without a signer call and without a second request.
C3_EmptyAcceptsThrows ==
    \A c \in Calls :
        (call[c].op = "wrapper" /\ call[c].first # None
            /\ call[c].first[1].status = PaymentRequired
            /\ call[c].pc # "json" /\ NoAccepts(c)) =>
            /\ call[c].pc = "threw"
            /\ call[c].error = "NoPaymentOptions"
            /\ call[c].trace = <<"http">>

\* a wrapped call threw on a 402 whose accepts is the empty list
C3_Witness ==
    \E c \in Calls :
        /\ call[c].op = "wrapper"
        /\ call[c].pc = "threw"
        /\ call[c].first # None
        /\ call[c].first[1].body.hasAccepts
        /\ call[c].first[1].body.accepts = <<>>

\* C4: a wrapped call issues at most two HTTP requests and calls the signer at most
\* once; the response to the retry, a 402 included, is what the call returns.
C4_SingleRetry ==
    \A c \in Calls :
        call[c].op = "wrapper" =>
            /\ Count(call[c].trace, "http") <= 2
            /\ Count(call[c].trace, "signCall") <= 1
            /\ Count(call[c].trace, "signTypedData") <= 1
            /\ call[c].second # None =>
                /\ call[c].pc = "returned"
                /\ call[c].returned = call[c].second
                /\ Count(call[c].trace, "http") = 2
                /\ Count(call[c].trace, "signCall") = 1

\* the retry of a wrapped call was answered 402 and the call returned
C4_Witness ==
    \E c \in Calls :
        /\ call[c].op = "wrapper"
        /\ call[c].pc = "returned"
        /\ call[c].second # None
        /\ call[c].second[1].status = PaymentRequired

\* C5: the payload of a sign call has authorization.value = amount.toString(),
\* from = the address its ensureWalletClient obtained, to = terms.payTo, and the
\* message submitted for signature holds the same six fields.
C5_PayloadFields ==
    \A c \in Calls :
        call[c].payload # None =>
            LET authorization == call[c].payload[1].payload.authorization
                message == call[c].sigReq[1].message
            IN  /\ authorization.value = BigIntToString(call[c].amount)
                /\ authorization.from = call[c].address
                /\ authorization.to = call[c].terms[1].payTo
                /\ message.from = authorization.from
                /\ message.to = authorization.to
                /\ message.value = call[c].amount
                /\ BigIntToString(message.validAfter) = authorization.validAfter
                /\ BigIntToString(message.validBefore) = authorization.validBefore
                /\ message.nonce = authorization.nonce

\* a direct sign call returned a payload for an amount that is not the offered one
C5_Witness ==
    \E c \in Calls :
        /\ call[c].op = "sign"
        /\ call[c].pc = "returned"
        /\ call[c].amount = 7
        /\ call[c].payload[1].payload.authorization.value = <<55>>

\* C6: the account of the client that requests the signature is the payload's
\* authorization.from and the message's from; that client being walletClient
\* whenever a session client exists, it is the session's selected address at the
\* moment of the request.
C6_SignerIsFrom ==
    \A c \in Calls :
        call[c].sigReq # None =>
            /\ call[c].sigReq[1].account = call[c].sigReq[1].message.from
            /\ call[c].payload # None =>
                call[c].payload[1].payload.authorization.from = call[c].sigReq[1].account

\* C7: validBefore > validAfter, and the gap is maxTimeoutSeconds + 300 + 60, at
\* least maxTimeoutSeconds, for every timeout the terms carry.
C7_WindowOpen ==
    \A c \in Calls :
        call[c].sigReq # None =>
            LET message == call[c].sigReq[1].message
                timeout == call[c].terms[1].maxTimeoutSeconds
            IN  /\ message.validBefore > message.validAfter
                /\ message.validBefore - message.validAfter >= timeout
                /\ message.validBefore - message.validAfter
                       = timeout + ExtraSeconds + SkewSeconds

\* C8: the clock value at the request of the signature lies inside the window
\* computed from the clock value the call read.
C8_NowInsideWindow ==
    \A c \in Calls :
        call[c].sigReq # None =>
            LET request == call[c].sigReq[1]
                timeout == call[c].terms[1].maxTimeoutSeconds
            IN  /\ request.message.validAfter = request.at - SkewSeconds
                /\ request.message.validBefore = request.at + timeout + ExtraSeconds
                /\ request.message.validAfter <= request.at
                /\ request.at <= request.message.validBefore

\* the chain check of a sign call comes before the draw of its nonce
ChainCheckedBeforeNonce(t) ==
    Precedes(t, "chainOk", "nonce") \/ Precedes(t, "chainMismatch", "nonce")

C11_RetryAfterRegistration ==
    \A c \in Calls :
        LET t == call[c].trace
        IN  (Has(t, "wallet_addEthereumChain") /\ Has(t, "guardOk")) =>
                /\ Count(t, "wallet_addEthereumChain") = 1
                /\ Count(t, "wallet_switchEthereumChain") = 2

\* C12: the guard fails with ChainSwitchFailed exactly when the switch was rejected
\* with the unrecognized-chain code and the registration that followed failed; a
\* switch rejected with any other error throws that very error value and issues no
\* wallet_addEthereumChain.
C12_GuardErrors ==
    \A c \in Calls :
        LET r == call[c]
            t == r.trace
        IN  /\ (Has(t, "wallet_switchEthereumChain") /\ r.provError # None) =>
                    IF r.provError[1].code = Some(UnrecognizedChain)
                    THEN /\ Count(t, "wallet_addEthereumChain") = 1
                         /\ (r.error = "ChainSwitchFailed") <=> Has(t, "guardFail")
                    ELSE /\ r.pc = "threw"
                         /\ r.thrown = r.provError
                         /\ r.error # "ChainSwitchFailed"
                         /\ ~Has(t, "wallet_addEthereumChain")
            /\ r.error = "ChainSwitchFailed" =>
                    /\ r.pc = "threw"
                    /\ r.provError = Some(ChainNotAdded)
                    /\ Precedes(t, "wallet_addEthereumChain", "guardFail")

\* a guard called by itself failed because the registration of the chain failed
C12_Witness ==
    \E c \in Calls :
        /\ call[c].op = "guard"
        /\ call[c].pc = "threw"
        /\ call[c].error = "ChainSwitchFailed"

\* the step of slot c in which eth_requestAccounts of connectWallet returned no
\* account
ReturnsNoAccounts(c) ==
    /\ call[c].pc = "connAccounts"
    /\ call'[c].pc # "connAccounts"
    /\ call'[c].provError = None
    /\ provAccounts' = <<>>

\* C13: a connectWallet whose eth_requestAccounts returned no account throws
\* NoAccountsSelected in that step, leaves walletClient as it was (none is created,
\* an existing one is not replaced), and has issued neither eth_chainId nor
\* eth_getBalance.
C13_NoAccountsLeavesSession ==
    [][\A c \in Calls :
        ReturnsNoAccounts(c) =>
            /\ call'[c].pc = "threw"
            /\ call'[c].error = "NoAccountsSelected"
            /\ walletClient' = walletClient
            /\ ~Has(call'[c].trace, "eth_chainId")
            /\ ~Has(call'[c].trace, "eth_getBalance")]_vars

\* a connectWallet threw NoAccountsSelected while a session client existed
C13_Witness ==
    \E c \in Calls :
        /\ call[c].op = "connect"
        /\ call[c].error = "NoAccountsSelected"
        /\ call[c].trace = <<"wallet_requestPermissions", "eth_requestAccounts">>
        /\ walletClient # None

\* C14: a connectWallet called when no session client existed, with no other
\* operation running, that threw has left no session client and has delivered no
\* WalletState to its caller, whose state stays the disconnected one.
C14_FailedConnectLeavesDisconnected ==
    \A c \in Calls :
        (call[c].op = "connect" /\ call[c].pc = "threw" /\ ~call[c].hadClient) =>
            /\ walletClient = None
            /\ call[c].state = None

\* the two addresses are the same up to the case of their letters
SameAddress(a, b) == a = b \/ {a, b} = {"0xaa", "0xAA"}

\* the step of slot c in which the second eth_accounts of switchAccount returned
\* the address read before the reselection
ReturnsSameAccount(c) ==
    /\ call[c].pc = "swNew"
    /\ call'[c].pc # "swNew"
    /\ call'[c].provError = None
    /\ provAccounts # <<>>
    /\ call[c].current # <<>>
    /\ SameAddress(provAccounts[1], call[c].current[1])

\* C15: a switchAccount that reads, after the reselection, the address it read
\* before it, whatever the case of the letters, throws AccountUnchanged for every
\* wallet type and leaves walletClient as it was; no other outcome of switchAccount
\* is AccountUnchanged.
C15_UnchangedAccountThrows ==
    [][\A c \in Calls :
        /\ ReturnsSameAccount(c) =>
            /\ call'[c].pc = "threw"
            /\ call'[c].error = "AccountUnchanged"
            /\ call'[c].flavour \in WalletTypes
            /\ walletClient' = walletClient
        /\ (call[c].error # "AccountUnchanged" /\ call'[c].error = "AccountUnchanged") =>
            ReturnsSameAccount(c)]_vars

\* a switchAccount on Rabby threw AccountUnchanged for 0xaa read again as 0xAA
C15_Witness ==
    \E c \in Calls :
        /\ call[c].op = "switchAccount"
        /\ call[c].error = "AccountUnchanged"
        /\ call[c].flavour = "rabby"
        /\ call[c].current = <<"0xAA">>
        /\ call[c].address = "0xaa"

\* C16: a switchAccount whose wallet_requestPermissions was rejected because the
\* user refused throws UserCancelled, for every wallet type.
C16_CancellationNormalized ==
    \A c \in Calls :
        (/\ call[c].op = "switchAccount"
         /\ call[c].pc = "threw"
         /\ call[c].trace = <<"eth_accounts", "wallet_requestPermissions">>
         /\ call[c].provError = Some(UserRejectedRequest)) =>
            call[c].error = "UserCancelled"

\* C17: disconnectWallet never throws, and in the step in which it returns, the
\* answer to the revocation arriving after steps of other operations, walletClient
\* is absent.
C17_DisconnectClearsClient ==
    [][\A c \in Calls :
        /\ call'[c].op = "disconnect" => call'[c].pc # "threw"
        /\ (call'[c].op = "disconnect" /\ call[c].pc # "returned"
                /\ call'[c].pc = "returned") =>
            walletClient' = None]_vars

\* C18: there is one session client at most (the single variable walletClient); it
\* comes into existence only by a step of connectWallet, so that it is absent before
\* the first connect and from a disconnect to the next connect; and the call of
\* disconnectWallet leaves it absent.
C18_ClientOnlyWithinLifecycle ==
    [][/\ (walletClient = None /\ walletClient' # None) =>
            \E c \in Calls : call'[c] # call[c] /\ call'[c].op = "connect"
       /\ \A c \in Calls :
            (call[c].pc = "idle" /\ call'[c].op = "disconnect") => walletClient' = None]_vars

\* the step of slot c in which eth_accounts of ensureWalletClient is answered
EnsureStep(c) == call[c].pc \in {"creating", "ensure"} /\ call'[c] # call[c]

\* C19: an ensureWalletClient that returns has set walletClient to a client built
\* in that step for the first account the provider reports then, whatever client
\* existed before; it throws NotConnected only when the provider reports no account
\* and never returns then; and without a provider it throws ProviderUnavailable.
C19_EnsureRebuilds ==
    [][\A c \in Calls :
        /\ EnsureStep(c) =>
            /\ call'[c].pc # "threw" =>
                /\ provAccounts # <<>>
                /\ walletClient' = Some(CreateWalletClient(provAccounts[1]))
                /\ walletClient'[1].account = provAccounts[1]
            /\ call'[c].pc = "threw" =>
                /\ call'[c].error \in {"NotConnected", "ProviderError"}
                /\ call'[c].error = "NotConnected" => provAccounts = <<>>
                /\ walletClient' = walletClient
            /\ provAccounts = <<>> => call'[c].pc = "threw"
        /\ (~hasProvider /\ call[c].pc = "idle" /\ call'[c].op \in {"wrapper", "sign"}) =>
            /\ call'[c].pc = "threw"
            /\ call'[c].error = "ProviderUnavailable"]_vars

\* the ensureWalletClient of a sign call obtained 0xaa, and after a change of
\* account the one of createPaymentFetch left a client for 0xbb
C19_Witness ==
    /\ call[2].op = "sign"
    /\ call[2].pc = "chainId"
    /\ call[2].address = "0xaa"
    /\ call[1].pc = "ready"
    /\ walletClient = Some(CreateWalletClient("0xbb"))

\* the WalletState getWalletState is to return from what it read
ExpectedState(r, chainId) ==
    IF ~hasProvider \/ r.provError # None \/ r.current = <<>>
    THEN [isConnected |-> FALSE, address |-> None, chainId |-> None, balance |-> None]
    ELSE [isConnected |-> TRUE, address |-> Some(r.current[1]), chainId |-> Some(chainId),
          balance |-> None]

\* C20: no step of getWalletState throws or changes walletClient; it returns the
\* disconnected shape without a provider, when the provider reports no account and
\* when a request fails, and otherwise isConnected with the first account, the
\* chain id of the provider and a null balance.
C20_GetStateReadsOnly ==
    [][\A c \in Calls :
        (call'[c].op = "getState" /\ call'[c] # call[c]) =>
            /\ walletClient' = walletClient
            /\ call'[c].pc # "threw"
            /\ call'[c].pc = "returned" =>
                call'[c].state = Some(ExpectedState(call'[c], provChain))]_vars

\* getWalletState returned a connected state while no session client existed
C20_Witness ==
    \E c \in Calls :
        /\ call[c].op = "getState"
        /\ call[c].pc = "returned"
        /\ call[c].state[1].isConnected
        /\ call[c].state[1].chainId = Some(BaseSepoliaId)
        /\ walletClient = None

----------------------------------------------------------------------------
(* The WalletState and the event bridge *)

WellFormed(state) ==
    /\ state.isConnected => state.address # None
    /\ ~state.isConnected =>
        state.address = None /\ state.chainId = None /\ state.balance = None

\* C21: every WalletState that connectWallet, switchAccount or getWalletState
\* returned, or that a handler of onWalletChange passed to the callback of the
\* application, has an address when it is connected, and neither address nor
\* chain id nor balance when it is not
C21_WalletStateShape ==
    /\ WellFormed(walletState)
    /\ \A c \in Calls : call[c].state # None => WellFormed(call[c].state[1])

\* a handler has passed a connected state to the callback while connectWallet
\* has returned one too
C21_Witness ==
    /\ call[2].op = "handler" /\ call[2].pc = "returned"
    /\ call[2].state[1].isConnected
    /\ walletState = call[2].state[1]
    /\ call[1].op = "connect" /\ call[1].pc = "returned"
    /\ call[1].state[1].isConnected

\* the provider calls the subscribed handler with an empty account list
EmptyAccountsHandled ==
    /\ subscribed /\ subscribed'
    /\ events # <<>>
    /\ Head(events) = AccountsChangedEvent(<<>>)
    /\ events' = Tail(events)

\* C22: when the provider calls the subscribed handler of accountsChanged with an
\* empty list, that very step gives the application the disconnected WalletState:
\* no request goes to the provider and no operation in progress is touched or
\* waited for
C22_EmptyAccountsDisconnect ==
    [][EmptyAccountsHandled =>
        /\ walletState' = Disconnected
        /\ call' = call
        /\ walletClient' = walletClient]_vars

\* the event waits for its handler while the application is connected and
\* connectWallet is suspended in the provider
C22_Witness ==
    /\ subscribed
    /\ events = <<AccountsChangedEvent(<<>>)>>
    /\ walletState.isConnected
    /\ call[1].op = "connect" /\ call[1].pc \notin {"idle", "returned", "threw"}
    /\ ENABLED HandleAccountsChanged

----------------------------------------------------------------------------
(* The wrapper around the signer *)

\* the failures of signPaymentAuthorization as its caller sees them
SignerFailures ==
    {"ProviderUnavailable", "NotConnected", "ProviderError", "ChainSwitchFailed",
     "UserRejected"}

\* the wrapped call in slot c has thrown after it called the signer and before the
\* signer returned a payload
SignerFailedInWrapper(c) ==
    /\ call[c].op = "wrapper"
    /\ call[c].pc = "threw"
    /\ Has(call[c].trace, "signCall")
    /\ call[c].payload = None

\* C23: a wrapped call in which the signer failed has thrown the signer's error
\* (the provider's own error value where the signer rethrew one), has called the
\* signer once, and has issued the first HTTP request only
C23_SignerFailureSurfaces ==
    \A c \in Calls : SignerFailedInWrapper(c) =>
        /\ call[c].error \in SignerFailures
        /\ call[c].thrown # None => call[c].thrown = call[c].provError
        /\ Count(call[c].trace, "signCall") = 1
        /\ Count(call[c].trace, "signTypedData") <= 1
        /\ Count(call[c].trace, "http") = 1
        /\ call[c].header = None
        /\ call[c].second = None

\* the user refused the signature of a wrapped call
C23_Witness ==
    /\ SignerFailedInWrapper(1)
    /\ Has(call[1].trace, "signTypedData")
    /\ call[1].error = "UserRejected"

\* the guard of a wrapped call rethrew the refusal of the chain switch
C23_WitnessGuard ==
    /\ SignerFailedInWrapper(1)
    /\ call[1].thrown = Some(UserRejectedRequest)
    /\ Has(call[1].trace, "guardFail")

\* the wrapped call in slot c has read a 402 body that is not an object: text that
\* is not JSON, or the JSON value null
UnreadableTermsHandled(c) ==
    /\ call[c].op = "wrapper"
    /\ call[c].first # None
    /\ call[c].first[1].status = PaymentRequired
    /\ call[c].first[1].body.kind \in {"unparsable", "null"}
    /\ call[c].pc # "json"

\* C24: a wrapped call whose 402 body cannot be read as payment terms has thrown
\* MalformedPaymentTerms, without a call of the signer and with the first HTTP
\* request only
C24_UnreadableTermsThrow ==
    \A c \in Calls : UnreadableTermsHandled(c) =>
        /\ call[c].pc = "threw"
        /\ call[c].error = "MalformedPaymentTerms"
        /\ ~Has(call[c].trace, "signCall")
        /\ Count(call[c].trace, "http") = 1

\* the wrapped call in slot c has issued its second request
RetryIssued(c) == call[c].op = "wrapper" /\ call[c].retry # None

\* C25: the second request of a wrapped call is sent with the method of the first
\* and with the headers of the first, whether they came from init or from the
\* Request object, plus X-Payment; and it is issued for the same input
C25_RetryKeepsRequest ==
    \A c \in Calls : RetryIssued(c) =>
        LET request == call[c].request[1]
            retry == call[c].retry[1]
            first == Fetch(request.input, request.init)
            second == Fetch(retry.input, retry.init)
        IN  /\ retry.input = request.input
            /\ second.method = first.method
            /\ second.headers = [first.headers EXCEPT !.xPayment = call[c].header]

\* the part of C25 that holds: the headers and the method given in init reach the
\* second request, with X-Payment added
C25_InitHeadersKept ==
    \A c \in Calls : (RetryIssued(c) /\ call[c].request[1].init # None) =>
        LET request == call[c].request[1]
            retry == call[c].retry[1]
        IN  Fetch(retry.input, retry.init) =
                [Fetch(request.input, request.init) EXCEPT
                    !.headers = [@ EXCEPT !.xPayment = call[c].header]]

----------------------------------------------------------------------------
(* The signer and the session client *)

\* the sign call in slot c, whose caller read the session client first, has thrown
SignFailed(c) ==
    /\ call[c].op = "sign"
    /\ call[c].clientBefore # None
    /\ call[c].pc = "threw"

\* C26: after a sign call that threw, the session client, and so the account it is
\* bound to, is the one the caller found before the call
C26_FailedSignKeepsClient ==
    \A c \in Calls : SignFailed(c) => walletClient = call[c].clientBefore[1]

----------------------------------------------------------------------------
(* The requests of connectWallet *)

\* the requests a connectWallet call has issued, by its argument
ConnectRequestsInOrder(r) ==
    IF ~hasProvider
    THEN r.pc = "threw" /\ r.error = "ProviderUnavailable" /\ r.trace = <<>>
    ELSE /\ Count(r.trace, "eth_requestAccounts") <= 1
         /\ IF r.forceNewConnection
            THEN /\ r.trace[1] = "wallet_requestPermissions"
                 /\ Count(r.trace, "wallet_requestPermissions") = 1
                 /\ r.pc # "connPerm" =>
                        Len(r.trace) >= 2 /\ r.trace[2] = "eth_requestAccounts"
            ELSE /\ r.trace[1] = "eth_requestAccounts"
                 /\ ~Has(r.trace, "wallet_requestPermissions")

\* the permission request of the call in slot c is answered in this step
PermissionAnswered(c) == call[c].op = "connect" /\ call[c].pc = "connPerm" /\ call'[c] # call[c]

\* C27: without a provider connectWallet throws ProviderUnavailable and issues no
\* request; with one it issues eth_requestAccounts exactly once: first of all when
\* forceNewConnection is false, with no wallet_requestPermissions at all, and right
\* after wallet_requestPermissions when it is true, whatever the answer to that
\* request was
C27_ConnectRequests ==
    /\ [](\A c \in Calls : call[c].op = "connect" => ConnectRequestsInOrder(call[c]))
    /\ [][\A c \in Calls : PermissionAnswered(c) =>
            /\ call'[c].pc = "connAccounts"
            /\ call'[c].trace = <<"wallet_requestPermissions", "eth_requestAccounts">>]_vars

\* the permission request was answered without a change of the accounts, as
\* after a refusal, and eth_requestAccounts is on its way
C27_Witness ==
    /\ call[1].op = "connect"
    /\ call[1].forceNewConnection
    /\ call[1].pc = "connAccounts"
    /\ provAccounts = <<>>

----------------------------------------------------------------------------
(* The chain at the signature request *)

\* the call in slot c requests its signature from the provider in this step
RequestsSignature(c) == call[c].pc # "signing" /\ call'[c].pc = "signing"

\* C28: at every step in which a sign call requests its signature, the active
\* chain of the provider is the configured one
C28_SignsOnTargetChain ==
    [][\A c \in Calls : RequestsSignature(c) => provChain' = GetChain.id]_vars

\* the part of C28 that holds: a sign call whose guard did not register the chain
\* requests its signature on the configured chain
C28_SignsOnTargetChainUnlessRegistered ==
    [][\A c \in Calls :
        (RequestsSignature(c) /\ ~Has(call[c].trace, "wallet_addEthereumChain")) =>
            provChain' = GetChain.id]_vars

----------------------------------------------------------------------------
(* The signing domain *)

\* C29: the domain of every signature request names the configured chain and the
\* USDC contract of that chain, whatever network, asset or other field the terms
\* carry; the terms decide the name and the version only, through extra, and
\* without extra those are "USD Coin" and "2"
C29_DomainFromConfiguration ==
    \A c \in Calls : call[c].sigReq # None =>
        LET domain == call[c].sigReq[1].domain
            extra == call[c].terms[1].extra
        IN  /\ domain.chainId = GetChain.id
            /\ domain.verifyingContract = UsdcAddress(GetChain.id)
            /\ domain.name = (IF extra.name = "" THEN "USD Coin" ELSE extra.name)
            /\ domain.version = (IF extra.version = "" THEN "2" ELSE extra.version)
            /\ \A d \in Calls : call[d].sigReq # None =>
                    /\ call[d].sigReq[1].domain.chainId = domain.chainId
                    /\ call[d].sigReq[1].domain.verifyingContract = domain.verifyingContract

\* a signature was requested for terms that name another network and asset
C29_Witness ==
    /\ call[1].pc = "signing"
    /\ call[1].terms[1].network = "base"
    /\ call[1].terms[1].asset = "0xother"
    /\ call[1].sigReq[1].domain.verifyingContract = UsdcAddress(BaseSepoliaId)

----------------------------------------------------------------------------
(* Several offered terms *)

\* the wrapped call in slot c received a 402 that offers more than one entry and
\* has gone on to the signer
SeveralOffered(c) ==
    /\ call[c].op = "wrapper"
    /\ call[c].first # None
    /\ Len(call[c].first[1].body.accepts) > 1
    /\ Has(call[c].trace, "signCall")

\* C30: a wrapped call that was offered several payment terms has called the
\* signer once, with accepts[0] and its amount; the domain and the recipient it
\* had signed, and the scheme, network, recipient and value of the payload in
\* the X-Payment header of its retry, are those of accepts[0]
C30_FirstOfferOnly ==
    \A c \in Calls : SeveralOffered(c) =>
        LET offered == call[c].first[1].body.accepts[1]
        IN  /\ Count(call[c].trace, "signCall") = 1
            /\ call[c].terms = Some(offered)
            /\ call[c].amount = StringToBigInt(offered.maxAmountRequired)
            /\ call[c].sigReq # None =>
                    /\ call[c].sigReq[1].domain = Domain(offered)
                    /\ call[c].sigReq[1].message.to = offered.payTo
                    /\ call[c].sigReq[1].message.value = call[c].amount
            /\ call[c].header # None =>
                    /\ Count(call[c].trace, "signTypedData") = 1
                    /\ SentPayload(c).scheme = offered.scheme
                    /\ SentPayload(c).network = offered.network
                    /\ SentPayload(c).payload.authorization.to = offered.payTo
                    /\ SentPayload(c).payload.authorization.value =
                            BigIntToString(StringToBigInt(offered.maxAmountRequired))
                    /\ call[c].retry[1].input = call[c].request[1].input

\* the retry of a call that was offered two entries has been answered
C30_Witness ==
    /\ SeveralOffered(1)
    /\ call[1].first[1].body.accepts[2] = DecoyTerms
    /\ call[1].first[1].body.accepts[1].payTo = "0xp2"
    /\ call[1].pc = "returned"
    /\ call[1].second # None

----------------------------------------------------------------------------
(* The result of connectWallet *)

\* connectWallet in slot c returns in this step
ConnectReturns(c) ==
    /\ call[c].op = "connect"
    /\ call[c].pc # "returned"
    /\ call'[c].pc = "returned"

\* eth_chainId of connectWallet in slot c is answered with the chain id in this step
ConnectReadsChain(c) ==
    /\ call[c].op = "connect"
    /\ call[c].pc = "connChain"
    /\ call'[c].pc = "connBalance"

\* C31: at the step in which connectWallet returns, the session client is bound
\* to the first address eth_requestAccounts returned and to the configured chain,
\* and the WalletState returned is connected, carries that address, and carries
\* the chain id the provider reported to the call
C31_ConnectResult ==
    [][\A c \in Calls :
        /\ ConnectReadsChain(c) => call'[c].state[1].chainId = Some(provChain)
        /\ ConnectReturns(c) =>
            /\ walletClient' = Some([account |-> call[c].address, chain |-> GetChain.id])
            /\ call'[c].state[1].isConnected
            /\ call'[c].state[1].address = Some(call[c].address)
            /\ call'[c].state[1].chainId = call[c].state[1].chainId]_vars

----------------------------------------------------------------------------
(* A switchAccount that throws *)

\* the switchAccount call in slot c, whose caller read the session client first,
\* has thrown
SwitchFailed(c) ==
    /\ call[c].op = "switchAccount"
    /\ call[c].clientBefore # None
    /\ call[c].pc = "threw"

\* C32: after a switchAccount call that threw, the session client is the one the
\* caller found before the call, bound to the same account
C32_FailedSwitchKeepsClient ==
    \A c \in Calls : SwitchFailed(c) => walletClient = call[c].clientBefore[1]

\* the part of C32 that holds: a switchAccount that threw before it read the
\* chain id has left the session client as it was
C32_EarlyFailureKeepsClient ==
    \A c \in Calls :
        (SwitchFailed(c) /\ ~Has(call[c].trace, "eth_chainId")) =>
            walletClient = call[c].clientBefore[1]

----------------------------------------------------------------------------
(* Who writes the session client *)

\* the step of slot c is one of connectWallet (line 116), disconnectWallet (153),
\* switchAccount (243), ensureWalletClient (397) or the rebuild of the signer
\* after the chain guard (452)
ClientMutatorStep(c) ==
    /\ call'[c] # call[c]
    /\ \/ call[c].pc \in {"connAccounts", "swNew", "creating", "ensure"}
       \/ call[c].pc = "idle" /\ call'[c].op = "disconnect"
       \/ call[c].pc \in {"switch", "addChain"} /\ call[c].op # "guard"

\* the step of slot c belongs to getWalletState, to the chain guard called by
\* itself, to a handler of onWalletChange, or to the wrapped request before it
\* calls the signer
BystanderStep(c) ==
    /\ call'[c] # call[c]
    /\ \/ call[c].op \in {"getState", "guard", "handler"}
       \/ call'[c].op \in {"getState", "guard", "handler"}
       \/ call[c].op = "wrapper" /\ call[c].pc \in {"ready", "fetch1"}
       \/ call[c].op = "wrapper" /\ call[c].pc = "json" /\ call'[c].pc = "threw"

\* C33: a step changes the session client only if it is a step of connectWallet,
\* disconnectWallet, switchAccount, ensureWalletClient or the signer's rebuild; the
\* steps of getWalletState, of the guard by itself, of the handlers (the
\* synchronous delivery of an empty account list included) and of the wrapped
\* request on its paths without signer leave it as it is
C33_ClientMutators ==
    [][/\ walletClient' # walletClient => \E c \in Calls : ClientMutatorStep(c)
       /\ (\E c \in Calls : BystanderStep(c)) => walletClient' = walletClient
       /\ events' # events => walletClient' = walletClient]_vars

\* the guard called by itself and a handler have both finished while a session
\* client exists
C33_Witness ==
    /\ call[1].op = "guard" /\ call[1].pc = "returned"
    /\ call[2].op = "handler" /\ call[2].pc = "returned"
    /\ walletClient # None

----------------------------------------------------------------------------
(* The callback of onWalletChange *)

\* the handler in slot c calls the callback with the state it awaited in this step
HandlerCallsBack(c) ==
    /\ call[c].op = "handler"
    /\ call[c].pc # "returned"
    /\ call'[c].pc = "returned"

\* the callback is called in this step, by a handler that had awaited the state
\* or by handleAccountsChanged itself for an empty list
CallbackCalled ==
    \/ \E c \in Calls : HandlerCallsBack(c)
    \/ events # <<>> /\ events' = Tail(events) /\ Head(events) = AccountsChangedEvent(<<>>)
       /\ subscribed'

\* C34: no step taken while the handlers are removed calls the callback
C34_NoCallbackAfterCleanup ==
    [][(~subscribed /\ ~subscribed') => ~CallbackCalled]_vars

\* the part of C34 that holds: the provider starts no handler while the handlers
\* are removed
C34_NoHandlerStartsAfterCleanup ==
    [][\A c \in Calls :
        (call[c].op # "handler" /\ call'[c].op = "handler") => subscribed]_vars

\* every event the provider emitted has been handled and every handler has
\* called the callback
HandlersCompleted ==
    /\ subscribed
    /\ events = <<>>
    /\ \A c \in Calls : call[c].op = "handler" => call[c].pc = "returned"

\* C35: under a subscription that is never removed, once all handlers have
\* completed after the provider lost its accounts, the state the application was
\* given last is the disconnected one of that account-cleared event, not a
\* connected state a handler of an earlier event produced
C35_LastDeliveryIsLatest ==
    (HandlersCompleted /\ provAccounts = <<>>) => ~walletState.isConnected

\* the part of C35 that holds: the handler of an event that read the accounts
\* after the provider lost them delivers the disconnected state
C35_LateReadDisconnects ==
    [][\A c \in Calls :
        (HandlerCallsBack(c) /\ call[c].pc = "gsAccounts" /\ provAccounts = <<>>) =>
            walletState' = Disconnected]_vars

----------------------------------------------------------------------------
(* Termination *)

\* the call in slot c is suspended on a request
Suspended(c) == call[c].pc \notin {"idle", "ready", "returned", "threw"}

\* the requests to the provider and to the network among the entries of a trace
IsRequest(entry) ==
    entry \in {"http", "eth_accounts", "eth_chainId", "eth_requestAccounts", "eth_getBalance",
               "wallet_requestPermissions", "wallet_revokePermissions",
               "wallet_switchEthereumChain", "wallet_addEthereumChain", "signTypedData"}

Requests(c) == SelectSeq(call[c].trace, IsRequest)

\* C36: when every request is eventually answered, every call that is suspended
\* eventually completes (createPaymentFetch by returning the wrapper); a call
\* issues at most seven requests; and the retry with X-Payment is issued only in
\* the step in which the signature request is answered, so a call whose request
\* is never answered issues nothing further
C36_CallsComplete ==
    /\ \A c \in Calls : Suspended(c) ~> ~Suspended(c)
    /\ [](\A c \in Calls : Len(Requests(c)) <= 7)
    /\ [][\A c \in Calls :
            /\ (call[c].header = None /\ call'[c].header # None) => call[c].pc = "signing"
            /\ (Suspended(c) /\ Len(call'[c].trace) > Len(call[c].trace)) =>
                    call'[c].pc # call[c].pc]_vars

\* a wrapped call completed after seven requests: the chain had to be registered
C36_Witness ==
    /\ call[1].op = "wrapper"
    /\ call[1].pc = "returned"
    /\ Len(Requests(1)) = 7

====
